---- MODULE Spec2Model ----
(***************************************************************************)
(* Retrieval engine of the chat application: the in-memory RAGService      *)
(* (ai_services/rag_service.py), the ChromaDB-backed ChromaService         *)
(* (ai_services/chroma_service.py), and the answer path that drives them   *)
(* (FileAnalyzer, EnhancedLLMService, ChatProcessor).                      *)
(*                                                                         *)
(* RAGService and ChromaService are two independent objects that share no  *)
(* state, and the application reaches the RAGService only through chat     *)
(* turns while its methods are also a public API (the test scripts call    *)
(* them directly).  The variable `driver` says which of them a behaviour   *)
(* exercises: "api" (RAGService methods called directly), "chat" (chat     *)
(* turns driving the RAGService), "chroma" (ChromaService methods),        *)
(* "generator" (FoundryService.generate_streaming_response alone).         *)
(* Every store state a chat turn can produce is produced by a direct       *)
(* process_file_for_rag call as well, so what holds of the store under     *)
(* "api" holds of it under "chat".                                         *)
(*                                                                         *)
(* The FileStore is an input: every operation that reads a file is given   *)
(* what the disk holds at that moment (a content version, "corrupt" or     *)
(* "missing"), so files may change arbitrarily between operations.         *)
(***************************************************************************)
EXTENDS Integers, Sequences, FiniteSets, TLC

VARIABLES
    driver,           \* "api", "chat", "chroma" or "generator"
    clock,            \* datetime.now() as read by _generate_chunk_id
    file_embeddings,  \* RAGService.file_embeddings: file name -> list of chunks
    document_chunks,  \* RAGService.document_chunks: chunk_id -> chunk (as a set, keyed by chunk_id)
    ragLast,          \* the last direct RAGService call and the dict it returned
    task,             \* per session: the chat turn in flight (ChatProcessor.process_message)
    collections,      \* ChromaService.collections: the collection names whose handle is cached
    client,           \* the store behind self.client: collection name -> the collection, if any
    backend,          \* what self.client is: "persistent" (PersistentClient) or "memory" (chromadb.Client())
    embedding_model,  \* ChromaService.embedding_model: "loaded", or "none" when loading failed
    chLast,           \* the last ChromaService call and what it returned
    llmLast,          \* the last direct FoundryService call: requests sent, text yielded
    fnLast,           \* the last application of a side-effect-free method and what it returned
    azLast,           \* the last FileAnalyzer.analyze_question_with_files call and the dict it returned
    split,            \* _split_text_into_chunks in progress: text, start, chunks, windows
    consumer          \* ChatConsumer: the frame being handled and the frames sent for it

vars == <<driver, clock, file_embeddings, document_chunks, ragLast, task,
          collections, client, backend, embedding_model, chLast, llmLast,
          fnLast, azLast, split, consumer>>

ragVars == <<clock, file_embeddings, document_chunks, ragLast, task>>
chromaVars == <<collections, client, backend, embedding_model, chLast>>
llmVars == <<llmLast>>
fnVars == <<fnLast, azLast, split, consumer>>

(***************************************************************************)
(* Bounds                                                                  *)
(***************************************************************************)
MaxClock == 1

(***************************************************************************)
(* The world: sessions, uploaded files, file contents, questions           *)
(***************************************************************************)
Sessions == {"sA", "sB"}
FileNames == {"devices.csv", "interfaces.csv"}
FileIds == 1..3

\* chat.models.UploadedFile rows: two sessions each uploaded a devices.csv.
\* file_type is the type the client sends with the attachment; "TXT" is
\* lower-cased by the analyzer but compared as is by the RAG services.
UploadedFile(fid) ==
    CASE fid = 1 -> [session |-> "sA", file_name |-> "devices.csv", file_type |-> "csv"]
      [] fid = 2 -> [session |-> "sA", file_name |-> "interfaces.csv", file_type |-> "TXT"]
      [] fid = 3 -> [session |-> "sB", file_name |-> "devices.csv", file_type |-> "csv"]

\* Content versions a file may hold on disk; every chunk text belongs to
\* exactly one version, so a text names the file it was extracted from.
Versions(fid) ==
    CASE fid = 1 -> {"devA"}
      [] fid = 2 -> {"intA", "intA2"}
      [] fid = 3 -> {"devB"}

AllVersions == UNION {Versions(fid) : fid \in FileIds}

\* What the disk may hold for a file when an operation reads it
DiskStates(fid) == Versions(fid) \cup {"corrupt", "missing"}

\* What a direct call of a store's process_file_for_rag may read at the path
\* it is given (a missing file reads like a corrupt one: the extractor's
\* exception is swallowed)
Contents(fid) == Versions(fid) \cup {"corrupt"}

\* Files whose paths direct RAGService calls are given: the two of session
\* sA, each holding its first version or being unreadable
ApiFiles == {fid \in FileIds : UploadedFile(fid).session = "sA"}
ApiContents(fid) == Contents(fid) \ {"intA2"}

\* The disk as one operation finds it
Disks == {dsk \in [FileIds -> AllVersions \cup {"corrupt", "missing"}] :
             \A fid \in FileIds : dsk[fid] \in DiskStates(fid)}

\* The text chunks of the first version of interfaces.csv: a text long enough
\* to be split into more chunks than one search returns, and ending in
\* blank lines, so that its last window is stripped to the empty string
IntATexts == << "i_dash", "i_rows", "i_c2", "i_c3", "i_c4", "i_c5", "i_c6",
               "i_c7", "i_c8", "i_c9", "i_c10", "i_blank" >>

\* What the extractor of the file's type yields for a content version:
\* the ordered chunk dicts (type, content).
ContentChunks(v) ==
    CASE v = "devA"  -> << [type |-> "columns", content |-> "a_cols"],
                           [type |-> "sample_data", content |-> "a_rows"],
                           [type |-> "summary", content |-> "a_sum"] >>
      [] v = "devB"  -> << [type |-> "columns", content |-> "b_cols"],
                           [type |-> "sample_data", content |-> "b_rows"],
                           [type |-> "summary", content |-> "b_sum"] >>
      [] v = "intA"  -> [i \in 1..Len(IntATexts) |->
                            [type |-> "text_chunk", content |-> IntATexts[i]]]
      [] v = "intA2" -> << [type |-> "text_chunk", content |-> "i_text"] >>

Texts == {"a_cols", "a_rows", "a_sum", "b_cols", "b_rows", "b_sum", "i_text"}
            \cup {IntATexts[i] : i \in 1..Len(IntATexts)}
Questions == {"q_down", "q_a", "q_empty"}
TypeInputs == {"csv", "TXT"}

\* Text statistics used by the fallback embedding: <<distinct words, words, characters>>.
\* "i_dash" is a punctuation-only text, "i_rows" has the statistics of "a_cols",
\* "q_a" is a one-letter question, "q_empty" and "i_blank" are the empty string.
TextStats(t) ==
    CASE t = "a_cols"  -> <<2, 2, 5>>
      [] t = "a_rows"  -> <<2, 3, 7>>
      [] t = "a_sum"   -> <<3, 4, 8>>
      [] t = "b_cols"  -> <<2, 2, 5>>
      [] t = "b_rows"  -> <<3, 3, 6>>
      [] t = "b_sum"   -> <<3, 4, 8>>
      [] t = "i_dash"  -> <<0, 0, 4>>
      [] t = "i_rows"  -> <<2, 2, 5>>
      [] t = "i_text"  -> <<2, 2, 4>>
      [] t = "i_c2"    -> <<1, 1, 3>>
      [] t = "i_c3"    -> <<1, 2, 3>>
      [] t = "i_c4"    -> <<2, 2, 3>>
      [] t = "i_c5"    -> <<1, 1, 4>>
      [] t = "i_c6"    -> <<1, 2, 4>>
      [] t = "i_c7"    -> <<2, 3, 4>>
      [] t = "i_c8"    -> <<3, 3, 5>>
      [] t = "i_c9"    -> <<1, 1, 6>>
      [] t = "i_c10"   -> <<3, 4, 6>>
      [] t = "i_blank" -> <<0, 0, 0>>
      [] t = "q_down"  -> <<3, 3, 7>>
      [] t = "q_a"     -> <<1, 1, 1>>
      [] t = "q_empty" -> <<0, 0, 0>>

\* Session whose upload a chunk text was extracted from
TextSession(t) ==
    IF t \in {"b_cols", "b_rows", "b_sum"} THEN "sB" ELSE "sA"

(***************************************************************************)
(* Sequence helpers                                                        *)
(***************************************************************************)
Range(s) == {s[i] : i \in 1..Len(s)}

(***************************************************************************)
(* RAGService: chunk construction, embedding, similarity                   *)
(***************************************************************************)
SupportedTypes == {"csv", "xlsx", "xls", "txt", "json"}

\* _extract_csv_content / _extract_text_content / ...: the chunk dicts of the
\* file's content; any exception while reading or parsing is swallowed and
\* an empty list returned.
ExtractContent(d) ==
    IF d \in {"corrupt", "missing"} THEN <<>> ELSE ContentChunks(d)

\* _generate_chunk_id: md5 of "<file_name>_<chunk_index>_<now>", first 12 hex digits
GenerateChunkId(file_name, chunk_index, now) == <<file_name, chunk_index, now>>

\* _simple_embedding: [distinct words, words, characters], L2-normalised when
\* the norm is positive.  Only the direction matters to the cosine, so the
\* vector is kept unnormalised; the zero vector stays zero.
SimpleEmbedding(text) == TextStats(text)

Dot(e1, e2) == e1[1] * e2[1] + e1[2] * e2[2] + e1[3] * e2[3]

\* _calculate_similarity: cosine of the two vectors, 0.0 when a norm is 0.
\* The cosine is kept exactly, as the fraction num/den of its square (all
\* components are non-negative, so the cosine is).
CalculateSimilarity(e1, e2) ==
    IF Dot(e1, e1) = 0 \/ Dot(e2, e2) = 0
    THEN [num |-> 0, den |-> 1]
    ELSE [num |-> Dot(e1, e2) * Dot(e1, e2), den |-> Dot(e1, e1) * Dot(e2, e2)]

\* similarity >= self.similarity_threshold (0.7)
MeetsThreshold(score) == 100 * score.num >= 49 * score.den

ScoreGreater(a, b) == a.num * b.den > b.num * a.den

\* _create_document_chunks followed by _generate_embeddings; the keys of the
\* chunk's metadata dict (file_name, chunk_type, chunk_index) are fields of
\* the record
CreateDocumentChunks(content_chunks, file_name, now) ==
    [i \in 1..Len(content_chunks) |->
        [chunk_id     |-> GenerateChunkId(file_name, i - 1, now),
         file_name    |-> file_name,
         source_file  |-> file_name,
         chunk_index  |-> i - 1,
         chunk_type   |-> content_chunks[i].type,
         content      |-> content_chunks[i].content,
         embedding    |-> SimpleEmbedding(content_chunks[i].content)]]

(***************************************************************************)
(* RAGService.file_embeddings is a dict: an association list in insertion  *)
(* order, one entry per key.                                               *)
(***************************************************************************)
Keys(d) == [i \in 1..Len(d) |-> d[i].key]
HasKey(d, k) == \E i \in 1..Len(d) : d[i].key = k
Lookup(d, k) == (CHOOSE i \in 1..Len(d) : d[i].key = k)
Get(d, k) == d[Lookup(d, k)].val

\* d[k] = v: an existing key keeps its position, a new key goes last
DictSet(d, k, v) ==
    IF HasKey(d, k)
    THEN [d EXCEPT ![Lookup(d, k)] = [key |-> k, val |-> v]]
    ELSE Append(d, [key |-> k, val |-> v])

\* del d[k]
DictDel(d, k) == SelectSeq(d, LAMBDA e : e.key # k)

\* self.document_chunks[chunk.chunk_id] = chunk, for every chunk of the list
RECURSIVE PutChunks(_, _)
PutChunks(dc, chunks) ==
    IF chunks = <<>> THEN dc
    ELSE PutChunks({c \in dc : c.chunk_id # Head(chunks).chunk_id} \cup {Head(chunks)},
                   Tail(chunks))

\* Variant of StoreChunksEmbeddings: the dict is replaced, not updated
StoreChunksEmbeddingsOnly(fe, chunks, file_name) == <<[key |-> file_name, val |-> chunks]>>

\* _store_chunks
StoreChunksEmbeddings(fe, chunks, file_name) == DictSet(fe, file_name, chunks)
StoreChunksDocuments(dc, chunks) == PutChunks(dc, chunks)

(***************************************************************************)
(* RAGService: retrieval and context assembly                              *)
(***************************************************************************)
max_results == 10

\* The SearchResult built for one chunk of file_name, or nothing when the
\* chunk is below the threshold
ChunkResult(query_embedding, file_name, chunk) ==
    LET similarity == CalculateSimilarity(query_embedding, chunk.embedding)
    IN  IF MeetsThreshold(similarity)
        THEN << [chunk |-> chunk, score |-> similarity,
                 source_file |-> file_name, context |-> chunk.content] >>
        ELSE <<>>

\* The loop over one file's chunks, in stored order
RECURSIVE FileResults(_, _, _)
FileResults(query_embedding, file_name, chunks) ==
    IF chunks = <<>> THEN <<>>
    ELSE ChunkResult(query_embedding, file_name, Head(chunks))
            \o FileResults(query_embedding, file_name, Tail(chunks))

\* The inner loops of search_relevant_chunks: files in the order given,
\* unknown names skipped, chunks in stored order
RECURSIVE CollectResults(_, _, _)
CollectResults(fe, query_embedding, files_to_search) ==
    IF files_to_search = <<>> THEN <<>>
    ELSE LET file_name == Head(files_to_search)
             here == IF HasKey(fe, file_name)
                     THEN FileResults(query_embedding, file_name, Get(fe, file_name))
                     ELSE <<>>
         IN  here \o CollectResults(fe, query_embedding, Tail(files_to_search))

\* list.sort(key=score, reverse=True): stable, equal scores keep their order
RECURSIVE InsertByScore(_, _)
InsertByScore(sorted, r) ==
    IF sorted = <<>> THEN <<r>>
    ELSE IF ScoreGreater(r.score, Head(sorted).score)
         THEN <<r>> \o sorted
         ELSE <<Head(sorted)>> \o InsertByScore(Tail(sorted), r)

RECURSIVE SortByScore(_)
SortByScore(results) ==
    IF results = <<>> THEN <<>>
    ELSE InsertByScore(SortByScore(SubSeq(results, 1, Len(results) - 1)),
                       results[Len(results)])

\* Variant of FilesToSearch: the file_names argument is ignored
FilesToSearchAll(fe, file_names) == Keys(fe)

\* file_names if file_names else list(self.file_embeddings.keys())
FilesToSearch(fe, file_names) ==
    IF file_names # <<>> THEN file_names ELSE Keys(fe)

\* A query that is not a string (None): query.lower() raises inside the try
\* block of search_relevant_chunks
NoneQuery == "q_none"
QueryRaises(query) == query = NoneQuery

\* Variant of SearchRelevantChunks: the sorted list is returned whole
SearchRelevantChunksUncut(fe, query, file_names) ==
    IF QueryRaises(query) THEN <<>>
    ELSE SortByScore(CollectResults(fe, SimpleEmbedding(query),
                                    FilesToSearch(fe, file_names)))

\* search_relevant_chunks: an exception anywhere in the body is caught and
\* the empty list returned
SearchRelevantChunks(fe, query, file_names) ==
    IF QueryRaises(query) THEN <<>>
    ELSE LET sorted == SortByScore(CollectResults(fe, SimpleEmbedding(query),
                                                  FilesToSearch(fe, file_names)))
         IN  SubSeq(sorted, 1, IF Len(sorted) < max_results THEN Len(sorted) ELSE max_results)

\* get_context_for_question: the context string is the list of
\* (source file, chunk content) parts that are joined with the separator,
\* the message the list of the parts its text is formatted from (a literal
\* without placeholders; no message when the search succeeds)
GetContextForQuestion(fe, question, file_names) ==
    LET search_results == SearchRelevantChunks(fe, question, file_names)
    IN  IF search_results = <<>>
        THEN [success |-> FALSE, context |-> <<>>, sources |-> <<>>,
              message |-> <<"No relevant context found in the specified files.">>,
              total_sources |-> 0]
        ELSE [success |-> TRUE,
              context |-> [i \in 1..Len(search_results) |->
                              <<search_results[i].source_file, search_results[i].chunk.content>>],
              sources |-> [i \in 1..Len(search_results) |->
                              [file_name       |-> search_results[i].source_file,
                               chunk_type      |-> search_results[i].chunk.chunk_type,
                               relevance_score |-> search_results[i].score,
                               content_preview |-> search_results[i].context]],
              message |-> <<>>,
              total_sources |-> Len(search_results)]

\* Variant of ClearFileEmbeddings: every file is cleared
ClearFileEmbeddingsAll(fe, file_name) == <<>>

\* clear_file_chunks
ClearFileEmbeddings(fe, file_name) ==
    IF HasKey(fe, file_name) THEN DictDel(fe, file_name) ELSE fe

ClearFileDocuments(fe, dc, file_name) ==
    IF HasKey(fe, file_name)
    THEN {c \in dc : c.chunk_id \notin {x.chunk_id : x \in Range(Get(fe, file_name))}}
    ELSE dc

\* get_file_stats
RECURSIVE SumOfLengths(_, _)
SumOfLengths(fe, i) ==
    IF i > Len(fe) THEN 0 ELSE Len(fe[i].val) + SumOfLengths(fe, i + 1)

GetFileStats(fe, dc) ==
    [total_chunks |-> Cardinality(dc),
     total_files |-> Len(fe),
     file_stats |-> [i \in 1..Len(fe) |-> [file_name |-> fe[i].key, chunks |-> Len(fe[i].val)]]]

\* process_file_for_rag: the new store and the returned dict
ProcessFileEmbeddings(fe, d, file_type, file_name, now) ==
    IF file_type \notin SupportedTypes THEN fe
    ELSE StoreChunksEmbeddings(fe, CreateDocumentChunks(ExtractContent(d), file_name, now),
                               file_name)

ProcessFileDocuments(dc, d, file_type, file_name, now) ==
    IF file_type \notin SupportedTypes THEN dc
    ELSE StoreChunksDocuments(dc, CreateDocumentChunks(ExtractContent(d), file_name, now))

ProcessFileReport(d, file_type, file_name, now) ==
    IF file_type \notin SupportedTypes
    THEN [success |-> FALSE, error |-> "Unsupported file type", chunks |-> <<>>]
    ELSE LET chunks == CreateDocumentChunks(ExtractContent(d), file_name, now)
         IN  [success |-> TRUE, file_name |-> file_name, file_type |-> file_type,
              chunks_created |-> Len(chunks), chunks |-> chunks]

(***************************************************************************)
(* FileAnalyzer: path resolution and the heuristic relevance score         *)
(***************************************************************************)
NoPath == 0

\* Lowest id among the UploadedFile rows with this name: what
\* UploadedFile.objects.filter(file_name=...).first() returns
FirstByName(file_name) ==
    CHOOSE fid \in FileIds :
        /\ UploadedFile(fid).file_name = file_name
        /\ \A other \in FileIds :
              UploadedFile(other).file_name = file_name => fid <= other

\* _resolve_file_path_async: by id when that file exists on disk, else the
\* first row with the same name when that one exists, else nothing (saved
\* files carry a session/timestamp prefix, so the name search finds none)
ResolveFilePath(dsk, file_info) ==
    IF dsk[file_info.id] # "missing" THEN file_info.id
    ELSE IF dsk[FirstByName(file_info.name)] # "missing" THEN FirstByName(file_info.name)
    ELSE NoPath

\* relevance_score of _analyze_file for a question and the content found at
\* the path; an unreadable file scores 0
Relevance(question, d) ==
    CASE d \in {"corrupt", "missing"} -> 0
      [] question = "q_down" /\ d = "devA"  -> 7
      [] question = "q_down" /\ d = "devB"  -> 3
      [] question = "q_down" /\ d = "intA2" -> 1
      [] OTHER -> 0

\* The file-info dict the chat layer attaches for an uploaded file
FileInfo(fid) ==
    [id |-> fid, name |-> UploadedFile(fid).file_name, type |-> UploadedFile(fid).file_type]

\* An attachment entry that is no dict (it has no .get)
Malformed == [id |-> 0, name |-> "", type |-> "not_a_dict"]

\* Attachment lists a session's chat turn may carry
AttachLists(s) ==
    LET own == {fid \in FileIds : UploadedFile(fid).session = s}
    IN  {<<FileInfo(fid)>> : fid \in own}
        \cup {<<FileInfo(p[1]), FileInfo(p[2])>> : p \in {pp \in own \X own : pp[1] < pp[2]}}
        \cup {<<Malformed>>, <<>>}

\* Inputs of a chat turn.  The turns of session sA take every question and
\* every fault (database error, Generator error, analysis exception); the
\* turns of sB, the session running beside it, ask one question and vary
\* in what they attach and in what the disk holds.
ChatQuestions(s) == IF s = "sA" THEN {"q_down", "q_empty"} ELSE {"q_down"}
Oks(s) == IF s = "sA" THEN BOOLEAN ELSE {TRUE}
Raises(s) == IF s = "sA" THEN BOOLEAN ELSE {FALSE}

\* The Generator calls of a turn: the configured service, what the network
\* does, and whether an exception reaches the _generate_*_response method
Steady(r) == [first |-> r, rest |-> r]
Outcomes(s) ==
    IF s = "sA"
    THEN {[service_type |-> "openai", net |-> Steady(r), raises |-> FALSE] :
             r \in {"ok", "status_500", "timeout"}}
         \cup {[service_type |-> "qwen", net |-> Steady("status_500"), raises |-> FALSE],
               [service_type |-> "openai", net |-> Steady("ok"), raises |-> TRUE]}
    ELSE {[service_type |-> "openai", net |-> Steady("ok"), raises |-> FALSE]}

\* A dict that was not returned yet
NoDict == [none |-> TRUE]

\* No call was made yet
NoCall == [op |-> "none"]

IdleTask ==
    [pc |-> "idle", question |-> "", attached |-> <<>>, idx |-> 0, paths |-> <<>>,
     found_data |-> <<>>, files_analyzed |-> 0, file_analyses |-> <<>>,
     rag_context |-> NoDict, log |-> <<>>, generator |-> NoCall,
     result |-> NoDict, reply |-> NoDict]

(***************************************************************************)
(* FoundryService: one call of generate_streaming_response                 *)
(***************************************************************************)
\* _detect_service_type: fixed by the configured URL and model name
ServiceTypes == {"google", "qwen", "openai"}

\* What the service does to one request: 200 with content, 200 without
\* content, 405, another non-200 status, httpx.ConnectError, or a timeout
\* (any other exception of the HTTP client)
Responses == {"ok", "ok_empty", "status_405", "status_500", "connect_error", "timeout"}

\* The network during one call: the response to the first request and the
\* response to every later one
Networks == [first : Responses, rest : Responses]

ResponseTo(net, n) == IF n = 1 THEN net.first ELSE net.rest

\* _handle_google_ai and _handle_openai_compatible: one request; a non-200
\* status and an exception are each turned into a text that is yielded
HandleSingleRequest(service_type, net) ==
    LET r == ResponseTo(net, 1)
    IN  [requests |-> 1,
         text |-> CASE r = "ok" -> "generator_text"
                    [] r = "ok_empty" -> ""
                    [] r \in {"status_405", "status_500"} ->
                         IF service_type = "google"
                         THEN "Error: Google AI service returned status"
                         ELSE "Error: OpenAI-compatible service returned status"
                    [] r \in {"connect_error", "timeout"} ->
                         IF service_type = "google"
                         THEN "Error connecting to Google AI"
                         ELSE "Error with OpenAI-compatible service"]

\* Lengths of endpoints_to_try, payloads_to_try and headers_variants
Endpoints == 5
Payloads == 3
HeaderVariants == 3

\* _handle_qwen_api from endpoint e, payload p, header variant h on, `sent`
\* requests having been sent: a 200 ends the call; a 405 and a ConnectError
\* break out of the header loop (the next payload follows); every other
\* failure goes on to the next header variant; when every combination
\* failed the closing text is yielded
RECURSIVE HandleQwenApi(_, _, _, _, _)
HandleQwenApi(net, e, p, h, sent) ==
    IF e > Endpoints
    THEN [requests |-> sent, text |-> "Unable to connect to Qwen service"]
    ELSE IF p > Payloads THEN HandleQwenApi(net, e + 1, 1, 1, sent)
    ELSE IF h > HeaderVariants THEN HandleQwenApi(net, e, p + 1, 1, sent)
    ELSE LET r == ResponseTo(net, sent + 1)
         IN  CASE r = "ok" -> [requests |-> sent + 1, text |-> "generator_text"]
               [] r = "ok_empty" -> [requests |-> sent + 1, text |-> ""]
               [] r \in {"status_405", "connect_error"} ->
                    HandleQwenApi(net, e, p + 1, 1, sent + 1)
               [] r \in {"status_500", "timeout"} ->
                    HandleQwenApi(net, e, p, h + 1, sent + 1)

\* generate_streaming_response: the requests sent and the text yielded
GenerateStreamingResponse(service_type, net) ==
    IF service_type = "qwen" THEN HandleQwenApi(net, 1, 1, 1, 0)
    ELSE HandleSingleRequest(service_type, net)

(***************************************************************************)
(* EnhancedLLMService and ChatProcessor: the dicts they return             *)
(***************************************************************************)
\* except-branch of process_question_with_files
QuestionError(error) ==
    [success |-> FALSE, error |-> error,
     response |-> "Sorry, I encountered an error processing your question."]

\* process_question_with_files when the analyzer reports success=False
AnalysisError(error) ==
    [success |-> FALSE, error |-> error,
     response |-> "Sorry, I encountered an error analyzing your files."]

\* Variant of LlmResponseKind: the heuristic analysis is preferred to the
\* retrieval context
LlmResponseKindDataFirst(found_data, rag_context) ==
    IF found_data # <<>> THEN "data_driven"
    ELSE IF rag_context.success THEN "rag_enhanced"
    ELSE "no_data"

\* _generate_llm_response: which prompt is built
LlmResponseKind(found_data, rag_context) ==
    IF rag_context.success THEN "rag_enhanced"
    ELSE IF found_data = <<>> THEN "no_data"
    ELSE "data_driven"

\* _generate_*_response: the text the Generator call yields, whatever it
\* is, or the method's own fallback sentence when building the prompt or
\* the call raises
LlmResponse(kind, call) ==
    [kind |-> kind,
     body |-> IF call.raises
              THEN CASE kind = "rag_enhanced" -> "found_information_context_excerpt"
                     [] kind = "no_data"      -> "searched_but_found_nothing"
                     [] kind = "data_driven"  -> "found_data_comprehensive_analysis"
              ELSE GenerateStreamingResponse(call.service_type, call.net).text]

\* Variant of CompileHeader: the nothing-found case is not told apart
CompileHeaderNoNothing(found_data, rag_context) ==
    IF rag_context.success \/ found_data = <<>> THEN "RAG-Enhanced Analysis"
    ELSE "Data found in attached files"

\* _compile_final_response: the header line put before the body
CompileHeader(found_data, rag_context) ==
    IF rag_context.success THEN "RAG-Enhanced Analysis"
    ELSE IF found_data = <<>> THEN "No relevant data found in attached files"
    ELSE "Data found in attached files"

\* The success dict of process_question_with_files
QuestionSuccess(found_data, files_analyzed, rag_context, llm_response) ==
    [success |-> TRUE,
     response |-> [header |-> CompileHeader(found_data, rag_context),
                   body |-> llm_response.body],
     llm_response |-> llm_response,
     rag_context |-> rag_context,
     metadata |-> [files_analyzed |-> files_analyzed,
                   data_found |-> Len(found_data) > 0,
                   rag_enhanced |-> rag_context.success,
                   rag_sources |-> Len(rag_context.sources)]]

\* _process_message_with_attachments: the response built from the result
AttachmentResponse(result, attached) ==
    IF ~result.success
    THEN [content |-> result.response,
          metadata |-> [chat_type |-> "file_analysis", error |-> TRUE,
                        attached_files |-> Len(attached)]]
    ELSE [content |-> result.response,
          metadata |-> [chat_type |-> "file_analysis", attached_files |-> Len(attached),
                        data_found |-> result.metadata.data_found,
                        files_analyzed |-> result.metadata.files_analyzed]]

\* process_message: the dict returned after the AI message was saved, and
\* the one returned by its except-branch
MessageSuccess(response) ==
    [success |-> TRUE, response |-> response.content, metadata |-> response.metadata]

\* Variant of MessageError: the dict carries no response text
MessageErrorBare(error) == [success |-> FALSE, error |-> error]

MessageError(error) ==
    [success |-> FALSE, error |-> error,
     response |-> "Sorry, I encountered an error processing your message."]

(***************************************************************************)
(* Actions of the RAGService called directly                               *)
(***************************************************************************)
FilterLists ==
    {<<>>, <<"devices.csv">>, <<"interfaces.csv">>}

\* The queries direct calls pass: the questions, and None
ApiQueries == Questions \cup {NoneQuery}

\* RAGService.process_file_for_rag on the path of an uploaded file that
\* holds d on disk (ragLast.read records what the call read)
RagProcessFile(fid, d, file_type) ==
    /\ driver = "api"
    /\ LET file_name == UploadedFile(fid).file_name
       IN  /\ file_embeddings' = ProcessFileEmbeddings(file_embeddings, d, file_type,
                                                       file_name, clock)
           /\ document_chunks' = ProcessFileDocuments(document_chunks, d, file_type,
                                                      file_name, clock)
           /\ ragLast' = [op |-> "process_file_for_rag", file_name |-> file_name,
                          file_type |-> file_type, read |-> d,
                          ret |-> ProcessFileReport(d, file_type, file_name, clock)]
    /\ UNCHANGED <<driver, clock, task>>
    /\ UNCHANGED chromaVars
    /\ UNCHANGED llmVars
    /\ UNCHANGED fnVars

\* RAGService.get_context_for_question
RagAsk(question, file_names) ==
    /\ driver = "api"
    /\ ragLast' = [op |-> "get_context_for_question", question |-> question,
                   file_names |-> file_names,
                   results |-> SearchRelevantChunks(file_embeddings, question, file_names),
                   ret |-> GetContextForQuestion(file_embeddings, question, file_names)]
    /\ UNCHANGED <<driver, clock, file_embeddings, document_chunks, task>>
    /\ UNCHANGED chromaVars
    /\ UNCHANGED llmVars
    /\ UNCHANGED fnVars

\* RAGService.clear_file_chunks; `cleared` is the number of chunks it removed
RagClearFile(file_name) ==
    /\ driver = "api"
    /\ file_embeddings' = ClearFileEmbeddings(file_embeddings, file_name)
    /\ document_chunks' = ClearFileDocuments(file_embeddings, document_chunks, file_name)
    /\ ragLast' = [op |-> "clear_file_chunks", file_name |-> file_name,
                   cleared |-> IF HasKey(file_embeddings, file_name)
                               THEN Len(Get(file_embeddings, file_name)) ELSE 0]
    /\ UNCHANGED <<driver, clock, task>>
    /\ UNCHANGED chromaVars
    /\ UNCHANGED llmVars
    /\ UNCHANGED fnVars

\* Time passes: datetime.now() returns a later value
Tick ==
    /\ driver = "api"
    /\ clock < MaxClock
    /\ clock' = clock + 1
    /\ UNCHANGED <<driver, file_embeddings, document_chunks, ragLast, task>>
    /\ UNCHANGED chromaVars
    /\ UNCHANGED llmVars
    /\ UNCHANGED fnVars

(***************************************************************************)
(* FoundryService called directly                                          *)
(***************************************************************************)
\* One call of generate_streaming_response, consumed to its end
FoundryGenerate(service_type, net) ==
    /\ driver = "generator"
    /\ llmLast' = [op |-> "generate_streaming_response", service_type |-> service_type,
                   net |-> net,
                   requests |-> GenerateStreamingResponse(service_type, net).requests,
                   text |-> GenerateStreamingResponse(service_type, net).text]
    /\ UNCHANGED driver
    /\ UNCHANGED ragVars
    /\ UNCHANGED chromaVars
    /\ UNCHANGED fnVars

(***************************************************************************)
(* A chat turn: ChatProcessor.process_message, down to the store.  Each    *)
(* action runs from one suspension point of the coroutine to the next.     *)
(***************************************************************************)
WellFormed(attached) == \A i \in 1..Len(attached) : attached[i] # Malformed

FileNamesOf(attached) == [i \in 1..Len(attached) |-> attached[i].name]

\* process_message up to the first suspension inside the analyzer: the
\* session row and the user message are stored, then a turn without
\* attachments is answered by the other intent handlers; one with
\* attachments enters process_question_with_files, whose file_names list
\* comprehension throws on an entry that is no dict.
ReceiveMessage(s, question, attached, db_ok) ==
    /\ driver = "chat"
    /\ task[s].pc = "idle"
    /\ task' = [task EXCEPT ![s] =
         IF ~db_ok
         THEN [IdleTask EXCEPT !.pc = "done", !.question = question, !.attached = attached,
                               !.reply = MessageError("database error")]
         ELSE IF attached = <<>>
         THEN [IdleTask EXCEPT !.pc = "done", !.question = question,
                               !.reply = MessageSuccess([content |-> "general_chat",
                                                         metadata |-> [chat_type |-> "general"]])]
         ELSE IF ~WellFormed(attached)
         THEN [IdleTask EXCEPT !.pc = "save", !.question = question, !.attached = attached,
                               !.result = QuestionError("attribute error")]
         ELSE [IdleTask EXCEPT !.pc = "resolve", !.question = question, !.attached = attached,
                               !.idx = 1, !.log = <<"analyzer">>]]
    /\ UNCHANGED <<driver, clock, file_embeddings, document_chunks, ragLast>>
    /\ UNCHANGED chromaVars
    /\ UNCHANGED llmVars
    /\ UNCHANGED fnVars

\* analyze_question_with_files_async resumes with the path of file idx,
\* the disk being dsk: an unresolved path skips the file; otherwise the
\* file is ingested into the RAGService and scored, and its entry appended
\* to file_analyses (paths records the file each path led to).  An exception after that ends the analysis with
\* success=False.  After the last file the analysis is assembled and
\* process_question_with_files goes on, without suspending, to
\* get_context_for_question and to the Generator call it then awaits.
AnalyzeFile(s, dsk, analysis_raises) ==
    /\ driver = "chat"
    /\ task[s].pc = "resolve"
    /\ LET t == task[s]
           file_info == t.attached[t.idx]
           path == ResolveFilePath(dsk, file_info)
           last == t.idx = Len(t.attached)
           relevance == IF path = NoPath THEN 0 ELSE Relevance(t.question, dsk[path])
           fe == IF path = NoPath THEN file_embeddings
                 ELSE ProcessFileEmbeddings(file_embeddings, dsk[path], file_info.type,
                                            file_info.name, clock)
           found == IF relevance > 0
                    THEN Append(t.found_data, [file_name |-> file_info.name,
                                               relevance_score |-> relevance])
                    ELSE t.found_data
           analyzed == IF path = NoPath THEN t.files_analyzed ELSE t.files_analyzed + 1
           analyses == IF path = NoPath THEN t.file_analyses
                       ELSE Append(t.file_analyses, [file_id |-> file_info.id,
                                                     file_name |-> file_info.name,
                                                     file_type |-> file_info.type])
       IN  /\ file_embeddings' = fe
           /\ document_chunks' =
                 IF path = NoPath THEN document_chunks
                 ELSE ProcessFileDocuments(document_chunks, dsk[path], file_info.type,
                                           file_info.name, clock)
           /\ task' = [task EXCEPT ![s] =
                IF analysis_raises
                THEN [t EXCEPT !.pc = "save", !.paths = Append(t.paths, path),
                               !.found_data = <<>>, !.files_analyzed = 0,
                               !.file_analyses = <<>>,
                               !.result = AnalysisError("analysis error")]
                ELSE IF ~last
                THEN [t EXCEPT !.idx = t.idx + 1, !.paths = Append(t.paths, path),
                               !.found_data = found, !.files_analyzed = analyzed,
                               !.file_analyses = analyses]
                ELSE [t EXCEPT !.pc = "generate", !.paths = Append(t.paths, path),
                               !.found_data = found, !.files_analyzed = analyzed,
                               !.file_analyses = analyses,
                               !.rag_context = GetContextForQuestion(fe, t.question,
                                                   FileNamesOf(t.attached)),
                               !.log = Append(t.log, "retrieval")]]
    /\ UNCHANGED <<driver, clock, ragLast>>
    /\ UNCHANGED chromaVars
    /\ UNCHANGED llmVars
    /\ UNCHANGED fnVars

\* The Generator call returns (text, an error text, or an exception caught
\* by the _generate_*_response method); the final response is compiled and
\* process_question_with_files returns (generator records the call).
Generate(s, outcome) ==
    /\ driver = "chat"
    /\ task[s].pc = "generate"
    /\ LET t == task[s]
           llm_response == LlmResponse(LlmResponseKind(t.found_data, t.rag_context), outcome)
       IN  task' = [task EXCEPT ![s] =
               [t EXCEPT !.pc = "save",
                         !.log = Append(t.log, "generator"),
                         !.generator = outcome,
                         !.result = QuestionSuccess(t.found_data, t.files_analyzed,
                                                    t.rag_context, llm_response)]]
    /\ UNCHANGED <<driver, clock, file_embeddings, document_chunks, ragLast>>
    /\ UNCHANGED chromaVars
    /\ UNCHANGED llmVars
    /\ UNCHANGED fnVars

\* _process_message_with_attachments wraps the result, process_message
\* stores the AI message and returns; a database error lands in its except.
SaveReply(s, db_ok) ==
    /\ driver = "chat"
    /\ task[s].pc = "save"
    /\ LET t == task[s]
       IN  task' = [task EXCEPT ![s] =
               [t EXCEPT !.pc = "done",
                         !.reply = IF db_ok
                                   THEN MessageSuccess(AttachmentResponse(t.result, t.attached))
                                   ELSE MessageError("database error")]]
    /\ UNCHANGED <<driver, clock, file_embeddings, document_chunks, ragLast>>
    /\ UNCHANGED chromaVars
    /\ UNCHANGED llmVars
    /\ UNCHANGED fnVars

\* The turn is over; the session may send its next message
Finish(s) ==
    /\ driver = "chat"
    /\ task[s].pc = "done"
    /\ task' = [task EXCEPT ![s] = IdleTask]
    /\ UNCHANGED <<driver, clock, file_embeddings, document_chunks, ragLast>>
    /\ UNCHANGED chromaVars
    /\ UNCHANGED llmVars
    /\ UNCHANGED fnVars

(***************************************************************************)
(* ChromaService: collections, add, query, delete                          *)
(***************************************************************************)
\* Variant of CollectionName: one collection shared by all sessions
CollectionNameShared(session_id) == <<"session", "shared">>

\* collection_name = f"session_{session_id}"
CollectionName(session_id) == <<"session", session_id>>

CollectionNames == {CollectionName(s) : s \in Sessions}

NoCollection == [exists |-> FALSE, docs |-> {}]

\* get_or_create_collection: a cached handle is returned as is; otherwise
\* the collection is fetched from the client, or created empty when the
\* client has none of that name; the handle is cached.
GetOrCreateClient(cl, cache, session_id) ==
    LET name == CollectionName(session_id)
    IN  IF name \in cache \/ cl[name].exists THEN cl
        ELSE [cl EXCEPT ![name] = [exists |-> TRUE, docs |-> {}]]

GetOrCreateCache(cache, session_id) == cache \cup {CollectionName(session_id)}

\* generate_embeddings: [] without a model or when encode raises
EmbeddingsAvailable(model, encode_ok) == model = "loaded" /\ encode_ok

\* ids, metadatas and documents prepared by process_file_for_rag
ChromaRecords(chunks, session_id, file_type, file_name, file_id) ==
    {[id          |-> <<file_id, i - 1>>,
      file_id     |-> file_id,
      file_name   |-> file_name,
      file_type   |-> file_type,
      chunk_type  |-> chunks[i].type,
      chunk_index |-> i - 1,
      session_id  |-> session_id,
      document    |-> chunks[i].content] : i \in 1..Len(chunks)}

\* collection.add: a record whose id the collection already holds is
\* skipped (ChromaDB logs it and keeps the stored record); the others are stored
CollectionAdd(docs, records) ==
    docs \cup {r \in records : r.id \notin {d.id : d \in docs}}

\* Distance of a chunk text from a query under the sentence-embedding
\* model, in hundredths
Distance(query, text) ==
    CASE query = "q_down" ->
           (CASE text = "a_rows" -> 30 [] text = "b_rows" -> 30
              [] text = "a_cols" -> 55 [] text = "b_cols" -> 60
              [] text = "i_text" -> 80 [] text = "i_rows" -> 80
              [] text = "i_dash" -> 120
              [] OTHER -> 85)
      [] query = "q_a" ->
           (CASE text = "i_dash" -> 70 [] text = "i_rows" -> 75
              [] OTHER -> 90)
      [] query = "q_empty" -> 100

\* Order in which collection.query ranks two records: nearer first, and
\* among equally near ones the lower id
RanksBefore(query, a, b) ==
    \/ Distance(query, a.document) < Distance(query, b.document)
    \/ /\ Distance(query, a.document) = Distance(query, b.document)
       /\ \/ a.id[1] < b.id[1]
          \/ a.id[1] = b.id[1] /\ a.id[2] < b.id[2]

RECURSIVE Ranked(_, _)
Ranked(query, records) ==
    IF records = {} THEN <<>>
    ELSE LET first == CHOOSE r \in records :
                          \A o \in records \ {r} : RanksBefore(query, r, o)
         IN  <<first>> \o Ranked(query, records \ {first})

\* where={'file_name': {'$in': file_filter}}, or no where clause for an
\* empty or absent filter
MatchesWhere(record, file_filter) ==
    file_filter = <<>> \/ record.file_name \in Range(file_filter)

\* collection.query followed by the result formatting of search_similar_chunks
SearchSimilarChunks(docs, query, n_results, file_filter) ==
    LET ranked == Ranked(query, {d \in docs : MatchesWhere(d, file_filter)})
        top == SubSeq(ranked, 1, IF Len(ranked) < n_results THEN Len(ranked) ELSE n_results)
    IN  [i \in 1..Len(top) |->
            [chunk_id         |-> top[i].id,
             content          |-> top[i].document,
             metadata         |-> top[i],
             similarity_score |-> 100 - Distance(query, top[i].document),
             source_file      |-> top[i].file_name]]

\* process_file_for_rag: the records that reach collection.add, none when
\* an earlier step returns
RecordsToAdd(d, session_id, file_type, file_name, file_id, model, encode_ok) ==
    IF \/ file_type \notin SupportedTypes
       \/ ExtractContent(d) = <<>>
       \/ ~EmbeddingsAvailable(model, encode_ok)
    THEN {}
    ELSE ChromaRecords(ExtractContent(d), session_id, file_type, file_name, file_id)

ChromaReport(d, file_type, file_name, model, encode_ok) ==
    IF file_type \notin SupportedTypes
    THEN [success |-> FALSE, error |-> "Unsupported file type", chunks |-> <<>>]
    ELSE IF ExtractContent(d) = <<>>
    THEN [success |-> FALSE, error |-> "No content extracted from file", chunks |-> <<>>]
    ELSE IF ~EmbeddingsAvailable(model, encode_ok)
    THEN [success |-> FALSE, error |-> "Failed to generate embeddings", chunks |-> <<>>]
    ELSE [success |-> TRUE, file_name |-> file_name, file_type |-> file_type,
          chunks_created |-> Len(ExtractContent(d)), chunks |-> ExtractContent(d)]

(***************************************************************************)
(* Actions of the ChromaService                                            *)
(***************************************************************************)
NResults == {1, 5}

\* ChromaService.process_file_for_rag (as FileService.process_file_for_rag
\* calls it) on a file the session uploaded, which holds d on disk
ChromaProcessFile(s, fid, d, file_type, encode_ok) ==
    /\ driver = "chroma"
    /\ UploadedFile(fid).session = s
    /\ LET file_name == UploadedFile(fid).file_name
           cl == GetOrCreateClient(client, collections, s)
           records == RecordsToAdd(d, s, file_type, file_name, fid, embedding_model, encode_ok)
       IN  /\ collections' = GetOrCreateCache(collections, s)
           /\ client' = [cl EXCEPT ![CollectionName(s)].docs = CollectionAdd(@, records)]
           /\ chLast' = [op |-> "process_file_for_rag", session_id |-> s, file_id |-> fid,
                         file_name |-> file_name, file_type |-> file_type, read |-> d,
                         ret |-> ChromaReport(d, file_type, file_name, embedding_model,
                                              encode_ok)]
    /\ UNCHANGED <<driver, backend, embedding_model>>
    /\ UNCHANGED ragVars
    /\ UNCHANGED llmVars
    /\ UNCHANGED fnVars

\* ChromaService.search_similar_chunks
ChromaSearch(s, query, n_results, file_filter, encode_ok) ==
    /\ driver = "chroma"
    /\ LET cl == GetOrCreateClient(client, collections, s)
       IN  /\ collections' = GetOrCreateCache(collections, s)
           /\ client' = cl
           /\ chLast' = [op |-> "search_similar_chunks", session_id |-> s, query |-> query,
                         n_results |-> n_results, file_filter |-> file_filter,
                         ret |-> IF EmbeddingsAvailable(embedding_model, encode_ok)
                                 THEN SearchSimilarChunks(cl[CollectionName(s)].docs,
                                          query, n_results, file_filter)
                                 ELSE <<>>]
    /\ UNCHANGED <<driver, backend, embedding_model>>
    /\ UNCHANGED ragVars
    /\ UNCHANGED llmVars
    /\ UNCHANGED fnVars

\* ChromaService.delete_file_chunks; `deleted` is the number of ids it
\* found and deleted
ChromaDeleteFile(s, file_name) ==
    /\ driver = "chroma"
    /\ LET cl == GetOrCreateClient(client, collections, s)
       IN  /\ collections' = GetOrCreateCache(collections, s)
           /\ client' = [cl EXCEPT ![CollectionName(s)].docs =
                                       {r \in @ : r.file_name # file_name}]
    /\ chLast' = [op |-> "delete_file_chunks", session_id |-> s, file_name |-> file_name,
                  deleted |-> Cardinality({r \in client[CollectionName(s)].docs :
                                              r.file_name = file_name}),
                  ret |-> TRUE]
    /\ UNCHANGED <<driver, backend, embedding_model>>
    /\ UNCHANGED ragVars
    /\ UNCHANGED llmVars
    /\ UNCHANGED fnVars

\* ChromaService.clear_session_data
ChromaClearSession(s) ==
    /\ driver = "chroma"
    /\ collections' = collections \ {CollectionName(s)}
    /\ client' = [client EXCEPT ![CollectionName(s)] = NoCollection]
    /\ chLast' = [op |-> "clear_session_data", session_id |-> s, ret |-> TRUE]
    /\ UNCHANGED <<driver, backend, embedding_model>>
    /\ UNCHANGED ragVars
    /\ UNCHANGED llmVars
    /\ UNCHANGED fnVars

\* _initialize_chroma: the persistent client, or the in-memory client when
\* creating the persistent one raises
InitializeChroma(init_ok) == IF init_ok THEN "persistent" ELSE "memory"

\* What __init__ writes to the 'ai_services' logger
ConstructLog(init_ok, model) ==
    (IF init_ok THEN << <<"info", "ChromaDB initialized">> >>
     ELSE << <<"error", "Failed to initialize ChromaDB">>,
             <<"warning", "Using in-memory ChromaDB client">> >>)
    \o (IF model = "loaded" THEN << <<"info", "Embedding model loaded">> >>
        ELSE << <<"error", "Failed to load embedding model">> >>)

EmptyClient == [n \in CollectionNames |-> NoCollection]

\* A new ChromaService() is constructed (FileService builds one per call):
\* the handle cache starts empty and the embedding model loads or does not.
\* The persistent client still holds what was persisted.  When creating it
\* fails the service runs on the in-memory client, which starts empty, and
\* on a later fallback holds what the process kept or, after a restart,
\* nothing (kept says which); a backend that failed stays failed.  The
\* caller gets the object: chLast.ret holds its attributes, chLast.logged
\* what was logged meanwhile.
ChromaConstruct(model, init_ok, kept) ==
    /\ driver = "chroma"
    /\ init_ok => backend = "persistent"
    /\ kept => (~init_ok /\ backend = "memory")
    /\ collections' = {}
    /\ embedding_model' = model
    /\ backend' = InitializeChroma(init_ok)
    /\ client' = IF init_ok \/ kept THEN client ELSE EmptyClient
    /\ chLast' = [op |-> "__init__",
                  logged |-> ConstructLog(init_ok, model),
                  ret |-> [client |-> InitializeChroma(init_ok),
                           embedding_model |-> model,
                           collections |-> {}]]
    /\ UNCHANGED driver
    /\ UNCHANGED ragVars
    /\ UNCHANGED llmVars
    /\ UNCHANGED fnVars

(***************************************************************************)
(* Strings, as Python's str methods and the re module treat them           *)
(***************************************************************************)
UpperCase == "ABCDEFGHIJKLMNOPQRSTUVWXYZ"
LowerCase == "abcdefghijklmnopqrstuvwxyz"
Digits == "0123456789"

CharAt(s, i) == SubSeq(s, i, i)

Chars(s) == {CharAt(s, i) : i \in 1..Len(s)}

\* str.lower() of one character
LowerChar(c) ==
    IF c \in Chars(UpperCase)
    THEN CharAt(LowerCase, CHOOSE i \in 1..Len(UpperCase) : CharAt(UpperCase, i) = c)
    ELSE c

\* str.lower()
RECURSIVE ToLower(_)
ToLower(s) == IF s = "" THEN "" ELSE LowerChar(CharAt(s, 1)) \o ToLower(Tail(s))

\* `sub in s` for strings
Contains(s, sub) ==
    \E i \in 1..(Len(s) - Len(sub) + 1) : SubSeq(s, i, i + Len(sub) - 1) = sub

\* \w and \s of the re module
IsWordChar(c) == c \in Chars(UpperCase) \cup Chars(LowerCase) \cup Chars(Digits) \cup {"_"}
IsSpace(c) == c \in {" ", "\n", "\t"}

\* re.sub(r'[^\w\s]', ' ', s)
RECURSIVE SubPunctuation(_)
SubPunctuation(s) ==
    IF s = "" THEN ""
    ELSE (IF IsWordChar(CharAt(s, 1)) \/ IsSpace(CharAt(s, 1)) THEN CharAt(s, 1) ELSE " ")
         \o SubPunctuation(Tail(s))

\* str.split(): the maximal runs of non-whitespace characters, in order;
\* word is the run being read
RECURSIVE SplitFrom(_, _)
SplitFrom(s, word) ==
    IF s = "" THEN (IF word = "" THEN <<>> ELSE <<word>>)
    ELSE IF IsSpace(CharAt(s, 1))
    THEN (IF word = "" THEN <<>> ELSE <<word>>) \o SplitFrom(Tail(s), "")
    ELSE SplitFrom(Tail(s), word \o CharAt(s, 1))

Split(s) == SplitFrom(s, "")

(***************************************************************************)
(* FileAnalyzer: search terms                                              *)
(***************************************************************************)
stop_words ==
    {"what", "is", "the", "a", "an", "and", "or", "but", "in", "on", "at", "to", "for",
     "of", "with", "by", "from", "up", "about", "into", "through", "during", "before",
     "after", "above", "below", "between", "among", "within", "without", "against",
     "show", "tell", "give", "find", "get", "make", "do", "have", "has", "had",
     "will", "would", "could", "should", "can", "may", "might", "must", "shall",
     "this", "that", "these", "those", "i", "you", "he", "she", "it", "we", "they"}

\* Variant of ExtractSearchTerms: no question-type context is added
ExtractSearchTermsPlain(question) ==
    LET words == Split(SubPunctuation(ToLower(question)))
    IN  {words[i] : i \in {j \in 1..Len(words) :
                              Len(words[j]) > 2 /\ words[j] \notin stop_words}}

\* _extract_search_terms: list(set(terms)), an unordered collection
ExtractSearchTerms(question) ==
    LET words == Split(SubPunctuation(ToLower(question)))
        terms == {words[i] : i \in {j \in 1..Len(words) :
                                       Len(words[j]) > 2 /\ words[j] \notin stop_words}}
    IN  terms
        \cup (IF Contains(ToLower(question), "which") \/ Contains(ToLower(question), "what")
              THEN {"list", "show", "identify"} ELSE {})
        \cup (IF Contains(ToLower(question), "how many")
              THEN {"count", "number", "total"} ELSE {})
        \cup (IF Contains(ToLower(question), "down")
              THEN {"failed", "inactive", "offline"} ELSE {})

(***************************************************************************)
(* FileAnalyzer: tabular analysis.  A table is the DataFrame pd.read_csv   *)
(* returns: the column names and the rows, every cell a string or NaN.     *)
(***************************************************************************)
\* A missing value of the DataFrame
NaN == "<NaN>"

\* astype(str) of a cell
AsStr(cell) == IF cell = NaN THEN "nan" ELSE cell

\* The empty DataFrame pd.DataFrame()
EmptyFrame == [columns |-> <<>>, rows |-> <<>>]

\* df[mask]: the rows at the positions in keep, in their order
RECURSIVE RowsAt(_, _, _)
RowsAt(rows, keep, i) ==
    IF i > Len(rows) THEN <<>>
    ELSE (IF i \in keep THEN <<rows[i]>> ELSE <<>>) \o RowsAt(rows, keep, i + 1)

\* The first column whose lower-cased name contains one of the words, 0 if none
FirstColumnWith(columns, words) ==
    LET hits == {c \in 1..Len(columns) :
                    \E w \in words : Contains(ToLower(columns[c]), w)}
    IN  IF hits = {} THEN 0 ELSE CHOOSE c \in hits : \A o \in hits : c <= o

down_patterns == {"down", "idle", "active", "failed", "disconnect", "inactive", "offline"}

\* Code points order the characters the tables use
Collation == Digits \o UpperCase \o "_" \o LowerCase

CodeOf(c) == CHOOSE i \in 1..Len(Collation) : CharAt(Collation, i) = c

\* a < b for strings
RECURSIVE StrLess(_, _)
StrLess(a, b) ==
    IF b = "" THEN FALSE
    ELSE IF a = "" THEN TRUE
    ELSE IF CharAt(a, 1) = CharAt(b, 1) THEN StrLess(Tail(a), Tail(b))
    ELSE CodeOf(CharAt(a, 1)) < CodeOf(CharAt(b, 1))

\* str(n) for the counts that occur
Str(n) == IF n < 10 THEN CharAt(Digits, n + 1)
          ELSE CharAt(Digits, (n \div 10) + 1) \o CharAt(Digits, (n % 10) + 1)

\* df.groupby(col).size().reset_index(name='count'): one row per distinct
\* non-missing value of the column, in ascending order, with its row count
RECURSIVE GroupRows(_, _, _)
GroupRows(rows, c, keys) ==
    IF keys = {} THEN <<>>
    ELSE LET k == CHOOSE x \in keys : \A y \in keys \ {x} : StrLess(x, y)
         IN  << <<k, Str(Cardinality({i \in 1..Len(rows) : rows[i][c] = k}))>> >>
             \o GroupRows(rows, c, keys \ {k})

\* _apply_intelligent_filter
ApplyIntelligentFilter(df, question, search_terms) ==
    LET question_lower == ToLower(question)
        state_col == FirstColumnWith(df.columns, {"state", "status", "condition", "health"})
        mask == IF state_col = 0 THEN {}
                ELSE {i \in 1..Len(df.rows) :
                         \E p \in down_patterns :
                            Contains(ToLower(AsStr(df.rows[i][state_col])), p)}
        name_col == FirstColumnWith(df.columns, {"name", "device", "host", "id", "identifier"})
        group_col == FirstColumnWith(df.columns, {ToLower(t) : t \in search_terms})
    IN  IF state_col # 0 /\ ("down" \in search_terms \/ "failed" \in search_terms)
           /\ mask # {}
        THEN [columns |-> df.columns, rows |-> RowsAt(df.rows, mask, 1)]
        ELSE IF (Contains(question_lower, "which") \/ Contains(question_lower, "what"))
                /\ name_col # 0
        THEN [columns |-> df.columns,
              rows |-> RowsAt(df.rows, {i \in 1..Len(df.rows) : df.rows[i][name_col] # NaN}, 1)]
        ELSE IF Contains(question_lower, "how many") /\ group_col # 0
        THEN [columns |-> <<df.columns[group_col], "count">>,
              rows |-> GroupRows(df.rows, group_col,
                                 {df.rows[i][group_col] : i \in 1..Len(df.rows)} \ {NaN})]
        ELSE EmptyFrame

\* DataFrame.empty
IsEmptyFrame(df) == Len(df.columns) = 0 \/ Len(df.rows) = 0

\* The columns whose lower-cased name contains a search term
MatchingColumns(df, search_terms) ==
    SelectSeq(df.columns, LAMBDA col : \E t \in search_terms : Contains(ToLower(col), ToLower(t)))

\* The (term, column, row) triples whose cell contains the term
CellMatches(df, search_terms) ==
    {m \in search_terms \X (1..Len(df.columns)) \X (1..Len(df.rows)) :
        Contains(ToLower(AsStr(df.rows[m[3]][m[2]])), ToLower(m[1]))}

\* Whether _analyze_csv adds the filter bonus
FilterBonus(df, filtered_df) ==
    ~IsEmptyFrame(filtered_df) /\ Len(filtered_df.rows) < Len(df.rows)

\* Variant of CsvRelevance: the bonus is added whenever the filter returns rows
CsvRelevanceAnyFilter(df, search_terms, question) ==
    2 * Len(MatchingColumns(df, search_terms))
    + Cardinality(CellMatches(df, search_terms))
    + (IF ~IsEmptyFrame(ApplyIntelligentFilter(df, question, search_terms)) THEN 5 ELSE 0)

\* relevance_score of _analyze_csv
CsvRelevance(df, search_terms, question) ==
    2 * Len(MatchingColumns(df, search_terms))
    + Cardinality(CellMatches(df, search_terms))
    + (IF FilterBonus(df, ApplyIntelligentFilter(df, question, search_terms)) THEN 5 ELSE 0)

\* _generate_csv_summary: the parts of the sentence
GenerateCsvSummary(found_data, relevance_score) ==
    IF relevance_score = 0
    THEN [total_rows |-> found_data.total_rows, text |-> "no relevant data found"]
    ELSE [total_rows |-> found_data.total_rows,
          relevant_columns |-> found_data.matching_columns,
          data_matches |-> found_data.matches,
          filtered_results |-> found_data.filtered_count]

\* _analyze_csv on a readable file
AnalyzeCsv(df, search_terms, question) ==
    LET filtered_df == ApplyIntelligentFilter(df, question, search_terms)
        bonus == FilterBonus(df, filtered_df)
        found_data == [total_rows |-> Len(df.rows),
                       total_columns |-> Len(df.columns),
                       columns |-> df.columns,
                       matching_columns |-> MatchingColumns(df, search_terms),
                       matches |-> Cardinality(CellMatches(df, search_terms)),
                       filtered_data |-> IF bonus THEN filtered_df.rows ELSE <<>>,
                       filtered_count |-> IF bonus THEN Len(filtered_df.rows) ELSE 0]
        relevance_score == CsvRelevance(df, search_terms, question)
    IN  [found_data |-> found_data,
         relevance_score |-> relevance_score,
         summary |-> GenerateCsvSummary(found_data, relevance_score)]


(***************************************************************************)
(* Inputs of the analyzer functions                                        *)
(***************************************************************************)
\* Tables: devices with one down, states that contain "active", devices
\* that are all up, a missing name and a missing state, no state column,
\* no rows
TabUpDown == [columns |-> <<"name", "status">>,
              rows |-> << <<"r1", "up">>, <<"r2", "down">>, <<"r3", "up">> >>]
TabActive == [columns |-> <<"Host", "State">>,
              rows |-> << <<"s1", "active">>, <<"s2", "Inactive">>, <<"s3", "up">> >>]
TabAllUp == [columns |-> <<"device", "status">>,
             rows |-> << <<"r1", "up">>, <<"r2", "up">> >>]
TabAllDown == [columns |-> <<"port", "health">>,
               rows |-> << <<"p1", "failed">>, <<"p2", "down">> >>]
TabMissing == [columns |-> <<"id", "status">>,
               rows |-> << <<NaN, "offline">>, <<"r2", NaN>>, <<"r3", "up">>,
                           <<"r4", "up">> >>]
TabPorts == [columns |-> <<"port", "speed">>,
             rows |-> << <<"p1", "10">>, <<"p2", "10">>, <<"p3", "40">> >>]
TabNoRows == [columns |-> <<"name", "status">>, rows |-> <<>>]

Tables == {TabUpDown, TabActive, TabAllUp, TabAllDown, TabMissing, TabPorts, TabNoRows}

AnalyzerQuestions ==
    {"Which devices are down?", "which devices failed", "is r2 up",
     "How many ports are down", "how many speed", "status of r2: offline?",
     "download the list", "whatever is idle", "What is DOWN on r2?",
     "Which status is down?", ""}

(***************************************************************************)
(* The analyzer's side-effect-free methods.  What they return depends on   *)
(* their arguments alone, so each behaviour applies one of them once.      *)
(***************************************************************************)
\* _extract_search_terms(question)
CallExtractSearchTerms(question) ==
    /\ driver = "functions"
    /\ fnLast = NoCall
    /\ fnLast' = [op |-> "_extract_search_terms", question |-> question,
                  ret |-> ExtractSearchTerms(question)]
    /\ UNCHANGED <<driver, azLast, split, consumer>>
    /\ UNCHANGED ragVars
    /\ UNCHANGED chromaVars
    /\ UNCHANGED llmVars

\* _apply_intelligent_filter(df, question, search_terms), with the search
\* terms _analyze_csv is given for the question
CallApplyIntelligentFilter(df, question) ==
    /\ driver = "functions"
    /\ fnLast = NoCall
    /\ fnLast' = [op |-> "_apply_intelligent_filter", df |-> df, question |-> question,
                  search_terms |-> ExtractSearchTerms(question),
                  ret |-> ApplyIntelligentFilter(df, question, ExtractSearchTerms(question))]
    /\ UNCHANGED <<driver, azLast, split, consumer>>
    /\ UNCHANGED ragVars
    /\ UNCHANGED chromaVars
    /\ UNCHANGED llmVars

\* _analyze_csv(file_path, search_terms, question) on a file that holds df
CallAnalyzeCsv(df, question) ==
    /\ driver = "functions"
    /\ fnLast = NoCall
    /\ fnLast' = [op |-> "_analyze_csv", df |-> df, question |-> question,
                  search_terms |-> ExtractSearchTerms(question),
                  ret |-> AnalyzeCsv(df, ExtractSearchTerms(question), question)]
    /\ UNCHANGED <<driver, azLast, split, consumer>>
    /\ UNCHANGED ragVars
    /\ UNCHANGED chromaVars
    /\ UNCHANGED llmVars

(***************************************************************************)
(* The CSV extractors of the two stores, applied to a table of n data rows *)
(***************************************************************************)
MaxRows == 121

sample_limit == 100
batch_rows == 20
head_rows == 10

Min(a, b) == IF a <= b THEN a ELSE b

\* range(0, len(sample_df), chunk_size): the batch starts, in order
RECURSIVE BatchStarts(_, _)
BatchStarts(i, sample_rows) ==
    IF i >= sample_rows THEN <<>>
    ELSE <<i>> \o BatchStarts(i + batch_rows, sample_rows)

\* ChromaService._extract_csv_chunks: columns, summary, then one sample_data
\* chunk per batch of the first min(100, n) rows
ExtractCsvChunks(n) ==
    LET sample_rows == Min(sample_limit, n)
        starts == BatchStarts(0, sample_rows)
    IN  << [type |-> "columns", total_rows |-> n],
           [type |-> "summary", total_rows |-> n] >>
        \o [k \in 1..Len(starts) |->
               [type |-> "sample_data",
                row_start |-> starts[k] + 1,
                row_end |-> Min(starts[k] + batch_rows, sample_rows),
                sample_size |-> Min(starts[k] + batch_rows, sample_rows) - starts[k]]]

\* RAGService._extract_csv_content: columns, one sample_data chunk holding
\* df.head(10), summary
ExtractCsvContent(n) ==
    << [type |-> "columns", total_rows |-> n],
       [type |-> "sample_data", sample_size |-> Min(head_rows, n)],
       [type |-> "summary", total_rows |-> n] >>

\* _extract_csv_chunks on a readable file of n data rows
CallExtractCsvChunks(n) ==
    /\ driver = "functions"
    /\ fnLast = NoCall
    /\ fnLast' = [op |-> "_extract_csv_chunks", n |-> n, ret |-> ExtractCsvChunks(n)]
    /\ UNCHANGED <<driver, azLast, split, consumer>>
    /\ UNCHANGED ragVars
    /\ UNCHANGED chromaVars
    /\ UNCHANGED llmVars

\* _extract_csv_content on a readable file of n data rows
CallExtractCsvContent(n) ==
    /\ driver = "functions"
    /\ fnLast = NoCall
    /\ fnLast' = [op |-> "_extract_csv_content", n |-> n, ret |-> ExtractCsvContent(n)]
    /\ UNCHANGED <<driver, azLast, split, consumer>>
    /\ UNCHANGED ragVars
    /\ UNCHANGED chromaVars
    /\ UNCHANGED llmVars

(***************************************************************************)
(* FileAnalyzer.analyze_question_with_files: the synchronous analysis of   *)
(* one question over its attached files                                    *)
(***************************************************************************)
\* What _analyze_csv reads from a devices.csv version
TableOf(d) == IF d = "devA" THEN TabUpDown ELSE TabAllUp

\* What _analyze_text reads from interfaces.csv: a short text version
TextOf(d) == "eth0 is down. eth1 is up. Uplink DOWN"

\* The disk as the analysis finds it
AnalyzerDisks ==
    {dsk \in [FileIds -> {"devA", "devB", "intT", "corrupt", "missing"}] :
        /\ dsk[1] \in {"devA", "corrupt", "missing"}
        /\ dsk[2] \in {"intT", "corrupt"}
        /\ dsk[3] \in {"devB", "missing"}}

\* Attachment lists of an analysis
AnalyzerAttachLists ==
    {<<>>, <<FileInfo(1)>>, <<FileInfo(3)>>, <<FileInfo(1), FileInfo(3)>>,
     <<FileInfo(2), FileInfo(1)>>, <<Malformed, FileInfo(2)>>}

AnalyzerCallQuestions == {"Which devices are down?", "how many speed", ""}

\* content_lower.find(term_lower, start) repeated from pos + 1: the number
\* of positions from start on at which term occurs in text
RECURSIVE Occurrences(_, _, _)
Occurrences(text, term, start) ==
    IF start + Len(term) - 1 > Len(text) THEN 0
    ELSE (IF SubSeq(text, start, start + Len(term) - 1) = term THEN 1 ELSE 0)
         + Occurrences(text, term, start + 1)

\* The number of elements of terms, each counted as often as it occurs
RECURSIVE TotalOccurrences(_, _)
TotalOccurrences(text, terms) ==
    IF terms = {} THEN 0
    ELSE LET term == CHOOSE t \in terms : TRUE
         IN  Occurrences(text, term, 1) + TotalOccurrences(text, terms \ {term})

\* _analyze_text: one match, and one point, per occurrence of a term in the
\* lower-cased content
AnalyzeText(d, search_terms) ==
    IF d = "corrupt"
    THEN [found_data |-> <<>>, relevance_score |-> 0,
          summary |-> [text |-> "Error reading text file"]]
    ELSE LET matches == TotalOccurrences(ToLower(TextOf(d)), search_terms)
         IN  [found_data |-> [matches |-> matches, total_length |-> Len(TextOf(d))],
              relevance_score |-> matches,
              summary |-> IF matches > 0
                          THEN [text |-> "Text file with matches", matches |-> matches]
                          ELSE [text |-> "Text file with no matches"]]

\* _analyze_file: the analysis of the lower-cased type; the content d is
\* what the path holds
AnalyzeOneFile(d, file_info, search_terms, question) ==
    LET file_type == ToLower(file_info.type)
    IN  IF file_type = "csv"
        THEN IF d = "corrupt"
             THEN [found_data |-> <<>>, relevance_score |-> 0,
                   summary |-> [text |-> "Error reading CSV"]]
             ELSE AnalyzeCsv(TableOf(d), search_terms, question)
        ELSE IF file_type = "txt" THEN AnalyzeText(d, search_terms)
        ELSE [found_data |-> <<>>, relevance_score |-> 0,
              summary |-> [text |-> "Unsupported file type"]]

\* Variant of CollectFoundData: every analysed file is collected
CollectFoundDataAlways(all_found_data, file_info, analysis) ==
    Append(all_found_data, [file_name |-> file_info.name, file_type |-> file_info.type,
                            data |-> analysis.found_data,
                            relevance_score |-> analysis.relevance_score,
                            summary |-> analysis.summary])

\* analyze_question_with_files, "Collect relevant data"
CollectFoundData(all_found_data, file_info, analysis) ==
    IF analysis.relevance_score > 0
    THEN Append(all_found_data, [file_name |-> file_info.name, file_type |-> file_info.type,
                                 data |-> analysis.found_data,
                                 relevance_score |-> analysis.relevance_score,
                                 summary |-> analysis.summary])
    ELSE all_found_data

\* _build_comprehensive_analysis: the parts of the text, in its two forms
BuildComprehensiveAnalysis(question, file_analyses, all_found_data, search_terms) ==
    IF all_found_data = <<>>
    THEN [question |-> question, search_terms |-> search_terms,
          files_analyzed |-> Len(file_analyses),
          result |-> "No relevant data found in any attached files.",
          asked_about |-> question, searched_for |-> search_terms,
          files_checked |-> Len(file_analyses),
          conclusion |-> "No matching data found."]
    ELSE [question |-> question, search_terms |-> search_terms,
          files_with_relevant_data |-> <<Len(all_found_data), Len(file_analyses)>>,
          found_data |-> [i \in 1..Len(all_found_data) |->
                             [number |-> i,
                              file |-> all_found_data[i].file_name,
                              type |-> all_found_data[i].file_type,
                              relevance |-> all_found_data[i].relevance_score,
                              summary |-> all_found_data[i].summary]],
          instruction |-> "Use this data to provide a comprehensive answer"]

\* analyze_question_with_files, "Add RAG information to analysis": the
\* analysis of a file the RAGService has processed carries its chunk count
AddRagInformation(base, rag_result) ==
    IF rag_result.success
    THEN [found_data |-> base.found_data,
          relevance_score |-> base.relevance_score,
          summary |-> base.summary,
          rag_chunks |-> rag_result.chunks_created,
          rag_enhanced |-> TRUE]
    ELSE base

\* One iteration of the loop for a resolved file holding d: the file is
\* ingested into the RAGService, its analysis appended to file_analyses
\* and collected
AnalyzeResolved(st, file_info, d, analysis) ==
    [file_embeddings |->
        ProcessFileEmbeddings(st.file_embeddings, d, file_info.type,
                              file_info.name, clock),
     document_chunks |->
        ProcessFileDocuments(st.document_chunks, d, file_info.type,
                             file_info.name, clock),
     file_analyses |->
        Append(st.file_analyses,
               [file_id |-> file_info.id, file_name |-> file_info.name,
                file_type |-> file_info.type, analysis |-> analysis]),
     all_found_data |-> CollectFoundData(st.all_found_data, file_info, analysis),
     files_analyzed |-> st.files_analyzed + 1]

\* _resolve_file_path of an entry of attached_files; an entry that is no
\* dict resolves to no path
ResolveEntry(dsk, file_info) ==
    IF file_info = Malformed THEN NoPath ELSE ResolveFilePath(dsk, file_info)

\* The loop over attached_files from entry idx on; st holds file_embeddings,
\* document_chunks and the three accumulators.  An entry whose path is not
\* resolved is skipped.
RECURSIVE AnalyzeLoop(_, _, _, _, _, _)
AnalyzeLoop(attached, idx, dsk, search_terms, question, st) ==
    IF idx > Len(attached) THEN st
    ELSE IF ResolveEntry(dsk, attached[idx]) = NoPath
    THEN AnalyzeLoop(attached, idx + 1, dsk, search_terms, question, st)
    ELSE AnalyzeLoop(attached, idx + 1, dsk, search_terms, question,
            AnalyzeResolved(st, attached[idx], dsk[ResolveEntry(dsk, attached[idx])],
                AddRagInformation(
                    AnalyzeOneFile(dsk[ResolveEntry(dsk, attached[idx])], attached[idx],
                                   search_terms, question),
                    ProcessFileReport(dsk[ResolveEntry(dsk, attached[idx])],
                                      attached[idx].type, attached[idx].name, clock))))

\* The dict analyze_question_with_files returns after the loop
AnalyzeReturn(question, search_terms, st) ==
    [success |-> TRUE, question |-> question,
     files_analyzed |-> st.files_analyzed,
     found_data |-> st.all_found_data,
     file_analyses |-> st.file_analyses,
     comprehensive_analysis |->
         BuildComprehensiveAnalysis(question, st.file_analyses,
                                    st.all_found_data, search_terms),
     search_keywords |-> search_terms]

\* The state after the loop and the returned dict
AnalyzeOutcome(question, attached, st) ==
    [file_embeddings |-> st.file_embeddings,
     document_chunks |-> st.document_chunks,
     last |-> [op |-> "analyze_question_with_files", question |-> question,
               attached |-> attached,
               ret |-> AnalyzeReturn(question, ExtractSearchTerms(question), st)]]

\* analyze_question_with_files(question, attached_files), the disk being
\* dsk.  Every callee catches its own exceptions (_resolve_file_path
\* returns None on an entry that is no dict), so with a list of entries the
\* call returns the success dict.
AnalyzeQuestionWithFiles(question, attached, dsk) ==
    /\ driver = "analyzer"
    /\ azLast = NoCall
    /\ \E out \in {AnalyzeOutcome(question, attached,
                      AnalyzeLoop(attached, 1, dsk, ExtractSearchTerms(question), question,
                                  [file_embeddings |-> file_embeddings,
                                   document_chunks |-> document_chunks,
                                   file_analyses |-> <<>>, all_found_data |-> <<>>,
                                   files_analyzed |-> 0]))} :
          /\ file_embeddings' = out.file_embeddings
          /\ document_chunks' = out.document_chunks
          /\ azLast' = out.last
    /\ UNCHANGED <<driver, clock, ragLast, task, fnLast, split, consumer>>
    /\ UNCHANGED chromaVars
    /\ UNCHANGED llmVars

(***************************************************************************)
(* _split_text_into_chunks (RAGService and ChromaService run the same      *)
(* loop): one step per iteration of the while loop                         *)
(***************************************************************************)
chunk_size == 1000
chunk_overlap == 200

\* A text is given by its length, the positions (from 0) of its '.' and
\* newline characters, and the position from which on it holds only spaces
SplitLengths == {0, 1, 640, 1000, 1001, 1190, 1801, 2600, 3400}

BreakSets ==
    {{}, {100 * k - 1 : k \in 1..34}, {450, 1390}, {620, 1500, 2399}, {0, 501, 1202}}

SplitTexts ==
    {[len |-> t[1], breaks |-> {b \in t[2] : b < t[3]}, blank_from |-> t[3]] :
        t \in {u \in SplitLengths \X BreakSets \X {0, 600, 900} : u[3] < u[1]}}
    \cup {[len |-> t[1], breaks |-> {b \in t[2] : b < t[1]}, blank_from |-> t[1]] :
             t \in SplitLengths \X BreakSets}

\* max(chunk.rfind('.'), chunk.rfind('\n')) for chunk = text[start:start + chunk_size]:
\* the index inside the chunk of its last '.' or newline, -1 when it has none
BreakPoint(text, start) ==
    LET inside == {b \in text.breaks : start <= b /\ b < start + chunk_size}
    IN  IF inside = {} THEN 0 - 1
        ELSE (CHOOSE b \in inside : \A other \in inside : other <= b) - start

\* Variant of TakesBreak: a break past 20% of the chunk size is taken
TakesBreakEarly(start, break_point) ==
    5 * break_point > 5 * start + chunk_size

\* break_point > start + self.chunk_size * 0.5
TakesBreak(start, break_point) ==
    2 * break_point > 2 * start + chunk_size

\* end after the boundary adjustment
ChunkEnd(text, start) ==
    IF start + chunk_size < text.len /\ TakesBreak(start, BreakPoint(text, start))
    THEN start + BreakPoint(text, start) + 1
    ELSE start + chunk_size

\* chunk.strip() is the empty string when the chunk holds only spaces
StripsToEmpty(text, start) == start >= text.blank_from

\* The call starts: chunks = [], start = 0
SplitStart(text) ==
    /\ driver = "splitter"
    /\ split = NoCall
    /\ split' = [op |-> "_split_text_into_chunks", pc |-> "loop", text |-> text,
                 start |-> 0, chunks |-> <<>>]
    /\ UNCHANGED <<driver, fnLast, azLast, consumer>>
    /\ UNCHANGED ragVars
    /\ UNCHANGED chromaVars
    /\ UNCHANGED llmVars

\* One iteration of `while start < len(text)`
SplitStep ==
    /\ driver = "splitter"
    /\ split.op = "_split_text_into_chunks"
    /\ split.pc = "loop"
    /\ split.start < split.text.len
    /\ LET end == ChunkEnd(split.text, split.start)
       IN  split' = [split EXCEPT
                        !.chunks = Append(@, [chunk_index |-> Len(split.chunks),
                                              position_start |-> split.start,
                                              position_end |-> end,
                                              empty |-> StripsToEmpty(split.text, split.start)]),
                        !.start = end - chunk_overlap]
    /\ UNCHANGED <<driver, fnLast, azLast, consumer>>
    /\ UNCHANGED ragVars
    /\ UNCHANGED chromaVars
    /\ UNCHANGED llmVars

\* The loop condition fails: return chunks
SplitReturn ==
    /\ driver = "splitter"
    /\ split.op = "_split_text_into_chunks"
    /\ split.pc = "loop"
    /\ split.start >= split.text.len
    /\ split' = [split EXCEPT !.pc = "done"]
    /\ UNCHANGED <<driver, fnLast, azLast, consumer>>
    /\ UNCHANGED ragVars
    /\ UNCHANGED chromaVars
    /\ UNCHANGED llmVars

(***************************************************************************)
(* ChatConsumer: one websocket connection.  receive handles one frame at a *)
(* time; consumer.frames are the frames sent since the last frame arrived  *)
(***************************************************************************)
\* A key the received JSON object does not hold
Absent == "<absent>"

\* What arrives on the socket: text that is no JSON, or a JSON object with
\* its type, its text ('message', or 'query' of a database query) and its
\* attached_files
ReceivedFrames ==
    {[json |-> FALSE]}
    \cup [json : {TRUE},
          type : {"message", "file_question", "database_query", "ping", "bogus", Absent},
          message : {"is r2 up", " \n", "", Absent},
          attached_files : {<<>>, <<FileInfo(1)>>, <<FileInfo(1), FileInfo(2)>>,
                            <<Malformed>>}]

\* What ChatProcessor.process_message returns to the consumer
ProcessResults ==
    {MessageSuccess([content |-> "answer", metadata |-> [chat_type |-> "general"]]),
     MessageError("database error")}

\* dict.get(key, default)
GetOr(value, default) == IF value = Absent THEN default ELSE value

\* not message.strip()
IsBlank(message) == \A i \in 1..Len(message) : IsSpace(CharAt(message, i))

ErrorFrame(message) == [type |-> "error", message |-> message]
TypingFrame(message) == [type |-> "typing", message |-> message]

\* _handle_chat_message up to the call of process_message: the frames sent
\* and whether the call is reached.  The list of attached names is built
\* before anything is sent, and raises on an entry that has no name.
HandleChatMessage(data) ==
    LET message == GetOr(data.message, "")
        attached_files == data.attached_files
    IN  IF IsBlank(message) THEN [frames |-> <<>>, awaits |-> FALSE]
        ELSE IF \E i \in 1..Len(attached_files) : attached_files[i] = Malformed
        THEN [frames |-> <<ErrorFrame("An error occurred processing your message")>>,
              awaits |-> FALSE]
        ELSE [frames |->
                 << [type |-> "user", message |-> message,
                     attached |-> FileNamesOf(attached_files)],
                    TypingFrame("Thinking...") >>
                 \o (IF attached_files # <<>>
                     THEN << TypingFrame("Analyzing attached files..."),
                             TypingFrame("Processing with RAG system..."),
                             TypingFrame("Searching for relevant data...") >>
                     ELSE <<>>)
                 \o << TypingFrame("Generating AI response...") >>,
              awaits |-> TRUE]

\* _handle_file_question and _handle_database_query up to process_message
HandleQuestion(data, prefix, status) ==
    LET message == GetOr(data.message, "")
    IN  IF IsBlank(message) THEN [frames |-> <<>>, awaits |-> FALSE]
        ELSE [frames |-> << [type |-> "user", message |-> prefix \o message,
                             attached |-> <<>>],
                            TypingFrame(status) >>,
              awaits |-> TRUE]

\* receive: the dispatch on the frame's type
Dispatch(data) ==
    IF ~data.json
    THEN [frames |-> <<ErrorFrame("Invalid JSON format")>>, awaits |-> FALSE]
    ELSE LET message_type == GetOr(data.type, "message")
         IN  CASE message_type = "message" -> HandleChatMessage(data)
               [] message_type = "file_question" ->
                     HandleQuestion(data, "Question about file: ", "Analyzing file...")
               [] message_type = "database_query" ->
                     HandleQuestion(data, "SQL Query: ", "Executing query...")
               [] message_type = "ping" ->
                     [frames |-> <<[type |-> "pong"]>>, awaits |-> FALSE]
               [] OTHER ->
                     [frames |-> <<ErrorFrame("Unknown message type: " \o message_type)>>,
                      awaits |-> FALSE]

\* Variant of ResultFrames: a failed result is reported as an error frame
ResultFramesOnSuccess(result) ==
    IF result.success
    THEN << [type |-> "ai", message |-> result.response] >>
    ELSE << ErrorFrame(result.error) >>

\* The frame sent when process_message has returned
ResultFrames(result) ==
    << [type |-> "ai", message |-> result.response] >>

\* A frame arrives: receive runs up to the call of process_message, or to
\* its end when the handler does not make that call
ConsumerReceive(data) ==
    /\ driver = "consumer"
    /\ consumer = NoCall \/ (consumer.op = "receive" /\ consumer.pc = "idle")
    /\ consumer' = [op |-> "receive", data |-> data,
                    frames |-> Dispatch(data).frames,
                    pc |-> IF Dispatch(data).awaits THEN "processing" ELSE "idle"]
    /\ UNCHANGED <<driver, fnLast, azLast, split>>
    /\ UNCHANGED ragVars
    /\ UNCHANGED chromaVars
    /\ UNCHANGED llmVars

\* process_message returns result: the reply frame is sent and receive ends
ConsumerProcessed(result) ==
    /\ driver = "consumer"
    /\ consumer.op = "receive"
    /\ consumer.pc = "processing"
    /\ consumer' = [consumer EXCEPT !.frames = @ \o ResultFrames(result), !.pc = "idle"]
    /\ UNCHANGED <<driver, fnLast, azLast, split>>
    /\ UNCHANGED ragVars
    /\ UNCHANGED chromaVars
    /\ UNCHANGED llmVars

(***************************************************************************)
(* Specifications                                                          *)
(***************************************************************************)
Init ==
    /\ driver \in {"api", "chat", "chroma", "generator", "functions", "analyzer", "splitter",
                  "consumer"}
    /\ clock = 0
    /\ file_embeddings = <<>>
    /\ document_chunks = {}
    /\ ragLast = NoCall
    /\ task = [s \in Sessions |-> IdleTask]
    /\ collections = {}
    /\ client = EmptyClient
    /\ backend = "persistent"
    /\ embedding_model = "loaded"
    /\ chLast = NoCall
    /\ llmLast = NoCall
    /\ fnLast = NoCall
    /\ azLast = NoCall
    /\ split = NoCall
    /\ consumer = NoCall

ApiNext ==
    \/ \E fid \in ApiFiles : \E d \in ApiContents(fid) : \E file_type \in TypeInputs :
          RagProcessFile(fid, d, file_type)
    \/ \E question \in ApiQueries : \E file_names \in FilterLists : RagAsk(question, file_names)
    \/ \E file_name \in FileNames : RagClearFile(file_name)
    \/ Tick

ChatNext ==
    \/ \E s \in Sessions : \E question \in ChatQuestions(s) : \E attached \in AttachLists(s) :
          \E db_ok \in Oks(s) : ReceiveMessage(s, question, attached, db_ok)
    \/ \E s \in Sessions : \E dsk \in Disks : \E analysis_raises \in Raises(s) :
          AnalyzeFile(s, dsk, analysis_raises)
    \/ \E s \in Sessions : \E outcome \in Outcomes(s) : Generate(s, outcome)
    \/ \E s \in Sessions : \E db_ok \in Oks(s) : SaveReply(s, db_ok)
    \/ \E s \in Sessions : Finish(s)

ChromaNext ==
    \/ \E s \in Sessions : \E fid \in FileIds : \E d \in Contents(fid) :
          \E file_type \in TypeInputs : \E encode_ok \in BOOLEAN :
             ChromaProcessFile(s, fid, d, file_type, encode_ok)
    \/ \E s \in Sessions : \E query \in Questions : \E n_results \in NResults :
          \E file_filter \in FilterLists : \E encode_ok \in BOOLEAN :
             ChromaSearch(s, query, n_results, file_filter, encode_ok)
    \/ \E s \in Sessions : \E file_name \in FileNames : ChromaDeleteFile(s, file_name)
    \/ \E s \in Sessions : ChromaClearSession(s)
    \/ \E model \in {"loaded", "none"} : \E init_ok \in BOOLEAN : \E kept \in BOOLEAN :
          ChromaConstruct(model, init_ok, kept)

GeneratorNext ==
    \E service_type \in ServiceTypes : \E net \in Networks : FoundryGenerate(service_type, net)

FunctionsNext ==
    \/ \E question \in AnalyzerQuestions : CallExtractSearchTerms(question)
    \/ \E df \in Tables : \E question \in AnalyzerQuestions :
          CallApplyIntelligentFilter(df, question)
    \/ \E df \in Tables : \E question \in AnalyzerQuestions : CallAnalyzeCsv(df, question)
    \/ \E n \in 0..MaxRows : CallExtractCsvChunks(n)
    \/ \E n \in 0..MaxRows : CallExtractCsvContent(n)

AnalyzerNext ==
    \E question \in AnalyzerCallQuestions : \E attached \in AnalyzerAttachLists :
       \E dsk \in AnalyzerDisks : AnalyzeQuestionWithFiles(question, attached, dsk)

SplitterNext ==
    \/ \E text \in SplitTexts : SplitStart(text)
    \/ SplitStep
    \/ SplitReturn

ConsumerNext ==
    \/ \E data \in ReceivedFrames : ConsumerReceive(data)
    \/ \E result \in ProcessResults : ConsumerProcessed(result)

Next ==
    \/ ApiNext \/ ChatNext \/ ChromaNext \/ GeneratorNext
    \/ FunctionsNext \/ AnalyzerNext \/ SplitterNext \/ ConsumerNext

Spec == Init /\ [][Next]_vars

\* The state before a call of _split_text_into_chunks
SplitterInit == Init /\ driver = "splitter"

\* A call of _split_text_into_chunks runs on: its thread is not suspended
\* for ever
SplitterSpec ==
    /\ SplitterInit
    /\ [][SplitterNext]_vars
    /\ WF_vars(SplitStep) /\ WF_vars(SplitReturn)

(***************************************************************************)
(* Properties                                                              *)
(***************************************************************************)
\* Steps, recognised by what they leave in the observation variables
RagClearStep(f) ==
    driver = "api" /\ clock' = clock
    /\ ragLast'.op = "clear_file_chunks" /\ ragLast'.file_name = f

RagIngestStep(f) ==
    driver = "api" /\ clock' = clock
    /\ ragLast'.op = "process_file_for_rag" /\ ragLast'.file_name = f

ChatIngestStep(s, f) ==
    driver = "chat" /\ task[s].pc = "resolve" /\ task'[s] # task[s]
    /\ task[s].attached[task[s].idx].name = f

ChromaDeleteStep(s, f) ==
    driver = "chroma" /\ chLast'.op = "delete_file_chunks"
    /\ chLast'.session_id = s /\ chLast'.file_name = f

ChromaIngestStep(s, f) ==
    driver = "chroma" /\ chLast'.op = "process_file_for_rag"
    /\ chLast'.session_id = s /\ chLast'.file_name = f

\* The documents of a session's collection
Docs(cl, s) == cl[CollectionName(s)].docs

\* C1: whatever was called before, every chunk that search_similar_chunks
\* returns for a session was added by process_file_for_rag under that same
\* session id -- never under the other one.
C1_SessionIsolation ==
    chLast.op = "search_similar_chunks" =>
        \A i \in 1..Len(chLast.ret) :
            /\ chLast.ret[i].metadata.session_id = chLast.session_id
            /\ TextSession(chLast.ret[i].content) = chLast.session_id

\* A search of session sA returned chunks while session sB holds chunks of
\* a file with the same name
C1_Witness ==
    /\ chLast.op = "search_similar_chunks"
    /\ chLast.session_id = "sA"
    /\ \E i \in 1..Len(chLast.ret) : chLast.ret[i].source_file = "devices.csv"
    /\ \E r \in Docs(client, "sB") : r.file_name = "devices.csv"

\* C2 as stated: for every file-name list F, retrieval restricted to F
\* returns no result and no source whose file name is not in F.
C2_FilterExactAnyList ==
    /\ ragLast.op = "get_context_for_question" =>
          /\ \A i \in 1..Len(ragLast.results) :
                ragLast.results[i].source_file \in Range(ragLast.file_names)
          /\ \A i \in 1..Len(ragLast.ret.sources) :
                ragLast.ret.sources[i].file_name \in Range(ragLast.file_names)
    /\ chLast.op = "search_similar_chunks" =>
          \A i \in 1..Len(chLast.ret) :
              chLast.ret[i].source_file \in Range(chLast.file_filter)

\* C2, amended: for every non-empty file-name list F, retrieval restricted
\* to F returns no result and no source whose stored file name is not an
\* element of F (an empty list is no restriction).
C2_FilterExact ==
    /\ (ragLast.op = "get_context_for_question" /\ ragLast.file_names # <<>>) =>
          /\ \A i \in 1..Len(ragLast.results) :
                /\ ragLast.results[i].source_file \in Range(ragLast.file_names)
                /\ ragLast.results[i].chunk.source_file \in Range(ragLast.file_names)
          /\ \A i \in 1..Len(ragLast.ret.sources) :
                ragLast.ret.sources[i].file_name \in Range(ragLast.file_names)
    /\ (chLast.op = "search_similar_chunks" /\ chLast.file_filter # <<>>) =>
          \A i \in 1..Len(chLast.ret) :
              /\ chLast.ret[i].source_file \in Range(chLast.file_filter)
              /\ chLast.ret[i].metadata.file_name \in Range(chLast.file_filter)

\* A filtered retrieval returned sources while the unfiltered one over the
\* same store returns more
C2_Witness ==
    /\ ragLast.op = "get_context_for_question"
    /\ ragLast.file_names # <<>>
    /\ ragLast.ret.success
    /\ Len(SearchRelevantChunks(file_embeddings, ragLast.question, <<>>))
          > Len(ragLast.ret.sources)

\* The turns whose process_question_with_files call has returned
Returned(s) == task[s].pc \in {"save", "done"} /\ task[s].result # NoDict

\* The turns in which retrieval ran and failed and the analyzer found no
\* file with a positive relevance score
NothingFound(s) ==
    /\ task[s].rag_context # NoDict
    /\ ~task[s].rag_context.success
    /\ task[s].found_data = <<>>

WellFormedResult(r) ==
    /\ "success" \in DOMAIN r
    /\ r.success \in BOOLEAN
    /\ ~r.success => ("response" \in DOMAIN r /\ r.response \in STRING /\ r.response # "")

\* C5: whatever the question, the attachments and the failures of path
\* resolution, parsing, retrieval, the Generator and the database,
\* process_question_with_files and process_message return a dict with a
\* success flag, with a response text whenever the flag is false.
C5_AlwaysReturnsDict ==
    \A s \in Sessions :
        /\ task[s].pc \in {"idle", "resolve", "generate", "save", "done"}
        /\ task[s].pc = "save" => WellFormedResult(task[s].result)
        /\ task[s].pc = "done" => WellFormedResult(task[s].reply)
        /\ task[s].pc \in {"idle", "resolve", "generate"} => task[s].reply = NoDict

\* Both operations returned success=false: the analysis raised and the
\* database failed when the reply was saved
C5_Witness ==
    \E s \in Sessions :
        /\ task[s].pc = "done"
        /\ ~task[s].reply.success
        /\ task[s].result # NoDict /\ ~task[s].result.success

\* C6: clearing file f leaves every retrieval restricted to f empty
\* (get_context_for_question: success=false, no sources), and every
\* retrieval restricted to another file g returns exactly what it returned
\* before the clear -- in the RAGService and in a ChromaService collection.
C6_ClearFileScoped ==
    [][/\ \A f \in FileNames : RagClearStep(f) =>
             \A q \in Questions :
                /\ SearchRelevantChunks(file_embeddings', q, <<f>>) = <<>>
                /\ ~GetContextForQuestion(file_embeddings', q, <<f>>).success
                /\ GetContextForQuestion(file_embeddings', q, <<f>>).sources = <<>>
                /\ \A g \in FileNames \ {f} :
                      /\ SearchRelevantChunks(file_embeddings', q, <<g>>)
                            = SearchRelevantChunks(file_embeddings, q, <<g>>)
                      /\ GetContextForQuestion(file_embeddings', q, <<g>>)
                            = GetContextForQuestion(file_embeddings, q, <<g>>)
       /\ \A s \in Sessions : \A f \in FileNames : ChromaDeleteStep(s, f) =>
             \A q \in Questions : \A n \in NResults :
                /\ SearchSimilarChunks(Docs(client', s), q, n, <<f>>) = <<>>
                /\ \A g \in FileNames \ {f} :
                      SearchSimilarChunks(Docs(client', s), q, n, <<g>>)
                         = SearchSimilarChunks(Docs(client, s), q, n, <<g>>)
      ]_vars

\* clear_file_chunks has just removed the chunks of one file while the
\* other file still answers a question
C6_Witness ==
    /\ ragLast.op = "clear_file_chunks"
    /\ ragLast.cleared > 0
    /\ \E g \in FileNames \ {ragLast.file_name} : \E q \in Questions :
          GetContextForQuestion(file_embeddings, q, <<g>>).success

\* The chunk list the RAGService holds for a file name, none when the name
\* is no key
ChunksOf(fe, f) == IF HasKey(fe, f) THEN Get(fe, f) ELSE <<>>

\* C7: ingesting file f, whether or not its extraction yields anything,
\* leaves the stored chunks of every other file g unchanged -- same chunks,
\* same contents, no duplicate -- and so the results of every retrieval
\* restricted to g; it holds of direct calls, of the ingestion done by a
\* chat turn, and of a ChromaService collection.
C7_ReingestionFrame ==
    [][/\ \A f \in FileNames :
             (RagIngestStep(f) \/ \E s \in Sessions : ChatIngestStep(s, f)) =>
                \A g \in FileNames \ {f} :
                   /\ HasKey(file_embeddings', g) <=> HasKey(file_embeddings, g)
                   /\ ChunksOf(file_embeddings', g) = ChunksOf(file_embeddings, g)
                   /\ \A q \in Questions :
                         SearchRelevantChunks(file_embeddings', q, <<g>>)
                            = SearchRelevantChunks(file_embeddings, q, <<g>>)
       /\ \A s \in Sessions : \A f \in FileNames : ChromaIngestStep(s, f) =>
             /\ \A g \in FileNames \ {f} :
                   {r \in Docs(client', s) : r.file_name = g}
                      = {r \in Docs(client, s) : r.file_name = g}
             /\ \A r1, r2 \in Docs(client', s) : r1.id = r2.id => r1 = r2
      ]_vars

\* File f was ingested again (a chunk of an earlier ingestion of f is still
\* in document_chunks but no longer in file_embeddings) while another file
\* holds chunks
C7_Witness ==
    /\ ragLast.op = "process_file_for_rag"
    /\ ragLast.ret.success
    /\ \E c \in document_chunks :
          /\ c.source_file = ragLast.file_name
          /\ c \notin Range(ChunksOf(file_embeddings, ragLast.file_name))
    /\ \E g \in FileNames \ {ragLast.file_name} : ChunksOf(file_embeddings, g) # <<>>

\* C8 as stated: a chunk of file f that retrieval can return stays so,
\* with unchanged content, across every step that is not clear_file_chunks
\* of f -- across later ingestions under the same name and across
\* questions.
C8_ChunksStayQueryable ==
    [][\A f \in FileNames :
          RagClearStep(f) \/
          \A c \in Range(ChunksOf(file_embeddings, f)) :
              c \in Range(ChunksOf(file_embeddings', f))
      ]_vars

\* The complete chunk sets an ingestion of a file named f can write
CompleteRagSets(f) ==
    {Range(CreateDocumentChunks(ContentChunks(v), f, now)) :
        v \in AllVersions, now \in 0..MaxClock}

CompleteChromaSets(s, f) ==
    {ChromaRecords(ContentChunks(v), s, file_type, f, fid) :
        v \in AllVersions, file_type \in SupportedTypes,
        fid \in {x \in FileIds : UploadedFile(x).file_name = f}}

\* C9 as stated: in every state another task or request can observe, the
\* queryable chunks of a file are none or the complete chunk set of one
\* ingestion of that file, in the RAGService and in every ChromaService
\* collection.
C9_AtomicPerFile ==
    /\ \A f \in FileNames :
          \/ ChunksOf(file_embeddings, f) = <<>>
          \/ Range(ChunksOf(file_embeddings, f)) \in CompleteRagSets(f)
    /\ \A s \in Sessions : \A f \in FileNames :
          LET stored == {r \in Docs(client, s) : r.file_name = f}
          IN  stored = {} \/ stored \in CompleteChromaSets(s, f)

\* The turn of session s found every attached file on disk, at the path of
\* the attachment itself
OwnFilesRead(s) ==
    /\ Len(task[s].paths) = Len(task[s].attached)
    /\ \A i \in 1..Len(task[s].paths) : task[s].paths[i] = task[s].attached[i].id

\* C10 as stated: when two sessions that each attach their own
\* devices.csv are answered by interleaved tasks, the retrieval context
\* returned for a question holds only chunk content extracted from a file
\* of the asking session.
C10_AnswerPathIsolation ==
    \A s \in Sessions :
        (task[s].rag_context # NoDict /\ task[s].rag_context.success /\ OwnFilesRead(s)) =>
            \A i \in 1..Len(task[s].rag_context.context) :
                TextSession(task[s].rag_context.context[i][2]) = s

\* Two scores are the same number
SameScore(a, b) == a.num * b.den = b.num * a.den

\* C11 as stated: the results of search_relevant_chunks are in
\* non-increasing score order, and of two results with the same score,
\* from one file or from two, the one with the smaller chunk_index comes
\* first.
C11_ResultOrdering ==
    ragLast.op = "get_context_for_question" =>
        \A i, j \in 1..Len(ragLast.results) :
            i < j =>
               /\ ~ScoreGreater(ragLast.results[j].score, ragLast.results[i].score)
               /\ SameScore(ragLast.results[i].score, ragLast.results[j].score) =>
                     ragLast.results[i].chunk.chunk_index
                        <= ragLast.results[j].chunk.chunk_index

\* The stored chunks in the scope of the last direct search: every file of
\* file_embeddings when the list is empty, else the files it names
InScopeChunks ==
    UNION {Range(file_embeddings[i].val) :
             i \in {k \in 1..Len(file_embeddings) :
                       \/ ragLast.file_names = <<>>
                       \/ file_embeddings[k].key \in Range(ragLast.file_names)}}

\* Cosine of the last query and a chunk, and whether it is at least 0.7
QueryScore(chunk) ==
    CalculateSimilarity(SimpleEmbedding(ragLast.question), chunk.embedding)

Qualifies(chunk) == 100 * QueryScore(chunk).num >= 49 * QueryScore(chunk).den

QualifyingChunks == {c \in InScopeChunks : Qualifies(c)}

ReturnedChunks == {ragLast.results[i].chunk : i \in 1..Len(ragLast.results)}

SearchedFiles == Range(FilesToSearch(file_embeddings, ragLast.file_names))

\* C13 as stated: when the search yields no result, get_context_for_question
\* returns success=false with empty context and sources, and its message
\* names every file that was searched.
C13_EmptyResultNamesFiles ==
    (ragLast.op = "get_context_for_question" /\ ragLast.results = <<>>) =>
        /\ ~ragLast.ret.success
        /\ ragLast.ret.context = <<>>
        /\ ragLast.ret.sources = <<>>
        /\ SearchedFiles \subseteq Range(ragLast.ret.message)

\* The turns whose analyze_question_with_files_async call has returned
Analyzed(s) ==
    /\ task[s].log # <<>>
    /\ task[s].pc \in {"generate", "save", "done"}

\* C14 as stated: whatever fails on one attached file, every file of the
\* list is processed, and the analysis returned has one file_analyses entry
\* per attached file, in order.
C14_OneEntryPerFile ==
    \A s \in Sessions :
        Analyzed(s) =>
            /\ Len(task[s].paths) = Len(task[s].attached)
            /\ Len(task[s].file_analyses) = Len(task[s].attached)
            /\ \A i \in 1..Len(task[s].attached) :
                  task[s].file_analyses[i].file_id = task[s].attached[i].id

\* The turns whose Generator call was made and failed: the first request
\* met a timeout, a transport error or a non-200 status
GeneratorFailed(s) ==
    /\ task[s].generator # NoCall
    /\ ~task[s].generator.raises
    /\ task[s].generator.net.first \notin {"ok", "ok_empty"}

\* The sentences _generate_*_response build from the analysis when the
\* Generator is not used
HeuristicAnswers ==
    {"found_information_context_excerpt", "searched_but_found_nothing",
     "found_data_comprehensive_analysis"}

\* C15 as stated: when the Generator call fails by timeout, transport error
\* or non-200 status, the answer of the turn is the heuristic-only answer,
\* not the Generator's error text and not empty.
C15_FailureSubstitutesHeuristic ==
    \A s \in Sessions :
        (Returned(s) /\ GeneratorFailed(s)) =>
            task[s].result.response.body \in HeuristicAnswers

\* C16 as stated: one call of generate_streaming_response sends at most one
\* request, whatever the service type and whatever the response.
C16_NoAutomaticRetry ==
    llmLast.op = "generate_streaming_response" => llmLast.requests <= 1

\* C17 as stated: while the embedding model is not loaded, a call of
\* process_file_for_rag fails only for an unsupported type or a file without
\* content, and a search over a collection that holds chunks in its scope
\* returns results.
C17_EmbeddingDegradation ==
    [][(driver = "chroma" /\ embedding_model = "none" /\ collections' # {}) =>
          /\ chLast'.op = "process_file_for_rag" =>
                \/ chLast'.ret.success
                \/ chLast'.ret.error \in {"Unsupported file type",
                                          "No content extracted from file"}
          /\ (/\ chLast'.op = "search_similar_chunks"
              /\ \E r \in Docs(client', chLast'.session_id) :
                     MatchesWhere(r, chLast'.file_filter)) =>
                chLast'.ret # <<>>]_vars

\* C18 as stated: when the persistent backend cannot be initialised, the
\* construction of the ChromaService completes on the in-memory store and
\* what the caller is given carries a warning about the degradation.
C18_StoreDegradationWarned ==
    (chLast.op = "__init__" /\ backend = "memory") =>
        /\ chLast.ret.client = "memory"
        /\ "warning" \in DOMAIN chLast.ret

\* C19 as stated: when extraction fails for a file of a supported type,
\* RAGService.process_file_for_rag and ChromaService.process_file_for_rag
\* return success=false with an error, and the file has no queryable chunk
\* from that call.
C19_ExtractionFailureReported ==
    /\ (/\ ragLast.op = "process_file_for_rag"
        /\ ragLast.file_type \in SupportedTypes
        /\ ExtractContent(ragLast.read) = <<>>) =>
           /\ ~ragLast.ret.success
           /\ "error" \in DOMAIN ragLast.ret
           /\ HasKey(file_embeddings, ragLast.file_name) =>
                 Get(file_embeddings, ragLast.file_name) = <<>>
    /\ (/\ chLast.op = "process_file_for_rag"
        /\ chLast.file_type \in SupportedTypes
        /\ ExtractContent(chLast.read) = <<>>) =>
           /\ ~chLast.ret.success
           /\ "error" \in DOMAIN chLast.ret

\* C20 as stated: ingestion of a non-empty file of a supported type, by
\* either service, returns chunks_created > 0, and every chunk it produced
\* names the ingested file and the ingesting session in its metadata.
C20_IngestionYield ==
    /\ (/\ ragLast.op = "process_file_for_rag"
        /\ ragLast.file_type \in SupportedTypes
        /\ ExtractContent(ragLast.read) # <<>>) =>
           /\ ragLast.ret.success
           /\ ragLast.ret.chunks_created > 0
           /\ \A i \in 1..Len(ragLast.ret.chunks) :
                 /\ ragLast.ret.chunks[i].file_name = ragLast.file_name
                 /\ ragLast.ret.chunks[i].source_file = ragLast.file_name
                 /\ "session_id" \in DOMAIN ragLast.ret.chunks[i]
    /\ (/\ chLast.op = "process_file_for_rag"
        /\ chLast.file_type \in SupportedTypes
        /\ ExtractContent(chLast.read) # <<>>) =>
           /\ chLast.ret.success
           /\ chLast.ret.chunks_created > 0
           /\ \A r \in Docs(client, chLast.session_id) :
                 r.file_id = chLast.file_id =>
                    /\ r.file_name = chLast.file_name
                    /\ r.session_id = chLast.session_id

\* len(content) of a chunk text
ContentLength(t) == TextStats(t)[3]

\* The chunk lists RAGService.file_embeddings holds, as (file, position) pairs
RagPositions ==
    {p \in (1..Len(file_embeddings)) \X (1..Len(IntATexts)) :
        p[2] <= Len(file_embeddings[p[1]].val)}

RagChunkAt(p) == file_embeddings[p[1]].val[p[2]]

\* Stored chunks have non-empty content, in both stores
ContentNonEmpty ==
    /\ \A p \in RagPositions : ContentLength(RagChunkAt(p).content) > 0
    /\ \A c \in document_chunks : ContentLength(c.content) > 0
    /\ \A s \in Sessions : \A r \in Docs(client, s) : ContentLength(r.document) > 0

\* Chunk ids are pairwise distinct: over the lists of file_embeddings, and
\* within each session's collection
ChunkIdsDistinct ==
    /\ \A p, q \in RagPositions :
          RagChunkAt(p).chunk_id = RagChunkAt(q).chunk_id => p = q
    /\ \A s \in Sessions : \A r, o \in Docs(client, s) : r.id = o.id => r = o

\* The chunk_index values of one ingestion increase strictly in emission order
ChunkIndexIncreasing ==
    /\ \A k \in 1..Len(file_embeddings) :
          \A i, j \in 1..Len(file_embeddings[k].val) :
             i < j => file_embeddings[k].val[i].chunk_index
                         < file_embeddings[k].val[j].chunk_index
    /\ ragLast.op = "process_file_for_rag" /\ ragLast.ret.success =>
          \A i, j \in 1..Len(ragLast.ret.chunks) :
             i < j => ragLast.ret.chunks[i].chunk_index < ragLast.ret.chunks[j].chunk_index

\* C21 as stated: in every reachable store state every stored chunk has
\* non-empty content, chunk ids are pairwise distinct within a session, and
\* the chunk_index values of one ingestion are strictly increasing.
C21_ChunkWellFormed ==
    /\ ContentNonEmpty
    /\ ChunkIdsDistinct
    /\ ChunkIndexIncreasing

\* The tokens of a question: the maximal runs of letters, digits and
\* underscores of its lower-cased text
Tokens(question) ==
    LET q == ToLower(question)
        IsRun(i, j) == /\ \A k \in i..j : IsWordChar(CharAt(q, k))
                       /\ i = 1 \/ ~IsWordChar(CharAt(q, i - 1))
                       /\ j = Len(q) \/ ~IsWordChar(CharAt(q, j + 1))
    IN  {SubSeq(q, p[1], p[2]) :
            p \in {pp \in (1..Len(q)) \X (1..Len(q)) : pp[1] <= pp[2] /\ IsRun(pp[1], pp[2])}}

\* The tokens that are kept as search terms
KeptTokens(question) == {w \in Tokens(question) : Len(w) > 2 /\ w \notin stop_words}

\* The phrase occurs in the question, in any letter case
Present(question, phrase) == Contains(ToLower(question), phrase)

\* C25: _extract_search_terms returns exactly the kept tokens of the
\* question (lower-cased, punctuation removed, no stop-word, longer than 2
\* characters), plus list, show, identify exactly when "which" or "what" is
\* present, plus count, number, total exactly when "how many" is present,
\* plus failed, inactive, offline exactly when "down" is present.
C25_KeywordExtraction ==
    fnLast.op = "_extract_search_terms" =>
        LET q == fnLast.question
            ask == IF Present(q, "which") \/ Present(q, "what")
                   THEN {"list", "show", "identify"} ELSE {}
            many == IF Present(q, "how many") THEN {"count", "number", "total"} ELSE {}
            down == IF Present(q, "down") THEN {"failed", "inactive", "offline"} ELSE {}
        IN  fnLast.ret = KeptTokens(q) \cup ask \cup many \cup down

\* A question with a capital letter, punctuation, a stop-word and a short
\* token, for which two of the three additions are made and one is not
C25_Witness ==
    /\ fnLast.op = "_extract_search_terms"
    /\ fnLast.question # ToLower(fnLast.question)
    /\ Tokens(fnLast.question) \ KeptTokens(fnLast.question) # {}
    /\ {"list", "failed"} \subseteq fnLast.ret
    /\ "count" \notin fnLast.ret
    /\ KeptTokens(fnLast.question) # {}

\* The down-like vocabulary
DownVocabulary == {"down", "idle", "inactive", "offline", "disconnect", "failed"}

\* The first state/status/condition/health column of a table, 0 if none
StateColumn(df) == FirstColumnWith(df.columns, {"state", "status", "condition", "health"})

\* The rows of a table whose value in column c contains a word of the vocabulary
RowsMatching(df, c, vocabulary) ==
    RowsAt(df.rows,
           {i \in 1..Len(df.rows) :
               \E w \in vocabulary : Contains(ToLower(AsStr(df.rows[i][c])), w)},
           1)

\* C23 as stated: for a table with a state column and a question whose
\* search terms include down or failed, _apply_intelligent_filter returns
\* exactly the rows whose state value matches the down-like vocabulary.
C23_DownStateFilter ==
    (/\ fnLast.op = "_apply_intelligent_filter"
     /\ StateColumn(fnLast.df) # 0
     /\ "down" \in fnLast.search_terms \/ "failed" \in fnLast.search_terms) =>
        fnLast.ret.rows = RowsMatching(fnLast.df, StateColumn(fnLast.df), DownVocabulary)

NameHits(df, terms) ==
    {c \in 1..Len(df.columns) : \E t \in terms : Contains(ToLower(df.columns[c]), t)}

CellHits(df, terms) ==
    {<<t, c, r>> \in terms \X (1..Len(df.columns)) \X (1..Len(df.rows)) :
        Contains(ToLower(AsStr(df.rows[r][c])), t)}

FilterResult == ApplyIntelligentFilter(fnLast.df, fnLast.question, fnLast.search_terms)

\* C24 as stated: _analyze_csv returns 2 x (the columns whose name contains a
\* search term) + the number of (term, column, row) triples whose cell
\* contains the term + 5 whenever the intelligent filter returns rows
C24_RelevanceScoreAsStated ==
    fnLast.op = "_analyze_csv" =>
        fnLast.ret.relevance_score =
            2 * Cardinality(NameHits(fnLast.df, fnLast.search_terms))
            + Cardinality(CellHits(fnLast.df, fnLast.search_terms))
            + (IF FilterResult.rows # <<>> THEN 5 ELSE 0)

\* C24: _analyze_csv returns 2 x (the columns whose name contains a search
\* term) + the number of (term, column, row) triples whose cell contains the
\* term + 5 exactly when the intelligent filter returns at least one row and
\* fewer rows than the table has; the score is a natural number
C24_RelevanceScore ==
    fnLast.op = "_analyze_csv" =>
        /\ fnLast.ret.relevance_score \in Nat
        /\ fnLast.ret.relevance_score =
              2 * Cardinality(NameHits(fnLast.df, fnLast.search_terms))
              + Cardinality(CellHits(fnLast.df, fnLast.search_terms))
              + (IF /\ FilterResult.rows # <<>>
                    /\ Len(FilterResult.rows) < Len(fnLast.df.rows)
                 THEN 5 ELSE 0)

\* a table with a matching column name, a matching cell and a filter result
\* narrower than the table
C24_Witness ==
    /\ fnLast.op = "_analyze_csv"
    /\ NameHits(fnLast.df, fnLast.search_terms) # {}
    /\ CellHits(fnLast.df, fnLast.search_terms) # {}
    /\ FilterResult.rows # <<>>
    /\ Len(FilterResult.rows) < Len(fnLast.df.rows)
    /\ fnLast.ret.relevance_score = 8


\* The analysed files with relevance_score > 0, in the order of analysis,
\* each with its name, type, score and summary
RECURSIVE RelevantFiles(_, _)
RelevantFiles(file_analyses, i) ==
    IF i > Len(file_analyses) THEN <<>>
    ELSE (IF file_analyses[i].analysis.relevance_score > 0
          THEN << [file |-> file_analyses[i].file_name,
                   type |-> file_analyses[i].file_type,
                   relevance |-> file_analyses[i].analysis.relevance_score,
                   summary |-> file_analyses[i].analysis.summary] >>
          ELSE <<>>) \o RelevantFiles(file_analyses, i + 1)

FoundFiles(found_data) ==
    [i \in 1..Len(found_data) |->
        [file |-> found_data[i].file_name, type |-> found_data[i].file_type,
         relevance |-> found_data[i].relevance_score, summary |-> found_data[i].summary]]

ListedFiles(comprehensive_analysis) ==
    [i \in 1..Len(comprehensive_analysis.found_data) |->
        [file |-> comprehensive_analysis.found_data[i].file,
         type |-> comprehensive_analysis.found_data[i].type,
         relevance |-> comprehensive_analysis.found_data[i].relevance,
         summary |-> comprehensive_analysis.found_data[i].summary]]

\* C22: the result of analyze_question_with_files holds in found_data
\* exactly the analysed files with relevance_score > 0; when there is none
\* the comprehensive analysis says that no relevant data was found and
\* names the question and the search terms, and otherwise it lists exactly
\* those files, each with its score and summary
C22_HeuristicReport ==
    azLast.op = "analyze_question_with_files" =>
        LET ret == azLast.ret
            relevant == RelevantFiles(ret.file_analyses, 1)
            text == ret.comprehensive_analysis
        IN  /\ FoundFiles(ret.found_data) = relevant
            /\ relevant = <<>> =>
                  /\ text.result = "No relevant data found in any attached files."
                  /\ text.asked_about = azLast.question
                  /\ text.searched_for = ExtractSearchTerms(azLast.question)
            /\ relevant # <<>> =>
                  /\ "result" \notin DOMAIN text
                  /\ ListedFiles(text) = relevant

\* two files were analysed, one with relevance_score > 0 and one with 0
C22_Witness ==
    /\ azLast.op = "analyze_question_with_files"
    /\ Len(azLast.ret.file_analyses) = 2
    /\ Len(azLast.ret.found_data) = 1
    /\ Len(azLast.ret.comprehensive_analysis.found_data) = 1


\* Position of the last '.' or newline of the window that starts at start,
\* -1 when the window holds none
LastBreak(text, start) ==
    LET inside == {b \in text.breaks : start <= b /\ b < start + chunk_size}
    IN  IF inside = {} THEN 0 - 1 ELSE CHOOSE b \in inside : \A other \in inside : other <= b

\* The chunk end of the boundary rule as stated
StatedEnd(text, start) ==
    LET b == LastBreak(text, start)
    IN  IF b >= 0 /\ 2 * (b - start) > chunk_size THEN b + 1 ELSE start + chunk_size

\* C27 as stated: every emitted window that ends before the end of the text,
\* at whatever offset it starts, ends right after its last '.' or newline
\* when that character lies past half of the window, and at start + 1000
\* otherwise; every next window starts 200 characters before that end
C27_BoundaryRule ==
    split.op = "_split_text_into_chunks" =>
        \A i \in 1..Len(split.chunks) :
            LET c == split.chunks[i]
                next_start == IF i < Len(split.chunks)
                              THEN split.chunks[i + 1].position_start ELSE split.start
            IN  /\ c.position_start + chunk_size < split.text.len =>
                      c.position_end = StatedEnd(split.text, c.position_start)
                /\ next_start = c.position_end - chunk_overlap

\* The steps of the loop of one call
LoopStep ==
    /\ split.op = "_split_text_into_chunks"
    /\ split'.op = "_split_text_into_chunks"
    /\ split'.chunks # split.chunks

Covered(text, chunks) ==
    \A p \in 0..(text.len - 1) :
        \E i \in 1..Len(chunks) :
            chunks[i].position_start <= p /\ p < chunks[i].position_end

\* C29: every iteration of the loop moves the window start forward by at
\* least 300 characters, every call returns, and when it returns every
\* character position of the text lies inside an emitted window
C29_TerminatesAndCovers ==
    /\ [][LoopStep => split'.start >= split.start + 300]_vars
    /\ []((split.op = "_split_text_into_chunks" /\ split.pc = "done") =>
             Covered(split.text, split.chunks))
    /\ (split.op = "_split_text_into_chunks") ~>
          (split.op = "_split_text_into_chunks" /\ split.pc = "done")

\* a call that returned four windows, one of them cut at a sentence end
C29_Witness ==
    /\ split.op = "_split_text_into_chunks"
    /\ split.pc = "done"
    /\ Len(split.chunks) >= 4
    /\ \E i \in 1..Len(split.chunks) :
          split.chunks[i].position_end < split.chunks[i].position_start + chunk_size


\* The stated chunk list of a CSV of n data rows
CsvSampleChunks(chunks) == SubSeq(chunks, 3, Len(chunks))

StatedCsvChunking(n, chunks) ==
    LET m == IF n < 100 THEN n ELSE 100
        samples == CsvSampleChunks(chunks)
    IN  /\ Len(chunks) >= 2
        /\ chunks[1].type = "columns"
        /\ chunks[2].type = "summary"
        /\ Len(samples) * 20 >= m /\ (Len(samples) - 1) * 20 < m
        /\ \A k \in 1..Len(samples) :
              /\ samples[k].type = "sample_data"
              /\ "row_start" \in DOMAIN samples[k] /\ "row_end" \in DOMAIN samples[k]
              /\ samples[k].row_start = (IF k = 1 THEN 1 ELSE samples[k - 1].row_end + 1)
              /\ samples[k].row_start <= samples[k].row_end
              /\ samples[k].row_end - samples[k].row_start < 20
              /\ k = Len(samples) => samples[k].row_end = m

\* C26 as stated: both CSV extractors emit a columns chunk, a summary chunk,
\* then ceil(min(n, 100) / 20) sample_data chunks whose row ranges are
\* consecutive, hold at most 20 rows each and cover rows 1..min(n, 100)
C26_CsvChunking ==
    fnLast.op \in {"_extract_csv_chunks", "_extract_csv_content"} =>
        StatedCsvChunking(fnLast.n, fnLast.ret)


ListedChunks(fe) == UNION {Range(fe[i].val) : i \in 1..Len(fe)}

\* C28 as stated: in every state of the RAGService, document_chunks holds
\* exactly the chunks listed in file_embeddings, get_file_stats reports
\* total_chunks equal to the sum of the per-file chunk counts, and after
\* clear_file_chunks(f) no chunk with source_file f is left in the store
C28_StoreBookkeeping ==
    driver = "api" =>
        /\ document_chunks = ListedChunks(file_embeddings)
        /\ GetFileStats(file_embeddings, document_chunks).total_chunks
              = SumOfLengths(file_embeddings, 1)
        /\ ragLast.op = "clear_file_chunks" =>
              /\ ~HasKey(file_embeddings, ragLast.file_name)
              /\ \A c \in document_chunks : c.source_file # ragLast.file_name

FrameTypes(frames) == [i \in 1..Len(frames) |-> frames[i].type]

\* 'user', then only 'typing' frames
TurnOpened(types) ==
    /\ Len(types) >= 2
    /\ types[1] = "user"
    /\ \A i \in 2..Len(types) : types[i] = "typing"

\* 'user', then only 'typing' frames, then one 'ai' frame, which is the last
TurnClosed(types) ==
    /\ Len(types) >= 3
    /\ TurnOpened(SubSeq(types, 1, Len(types) - 1))
    /\ types[Len(types)] = "ai"

ChatFrame(data) == data.json /\ GetOr(data.type, "message") = "message"

UnknownFrame(data) ==
    data.json /\ GetOr(data.type, "message") \notin
                    {"message", "file_question", "database_query", "ping"}

NamedAttachments(data) ==
    \A i \in 1..Len(data.attached_files) : data.attached_files[i] # Malformed

\* C30 as stated: every frame of type 'message' with non-blank text is
\* answered by a 'user' echo, then only 'typing' frames, and when the turn
\* is over one final 'ai' frame; a blank message by no frame; invalid JSON
\* and unknown types by one 'error' frame
C30_TurnProtocolAsStated ==
    consumer.op = "receive" =>
        LET data == consumer.data
            types == FrameTypes(consumer.frames)
        IN  /\ (~data.json \/ UnknownFrame(data)) => types = <<"error">>
            /\ (ChatFrame(data) /\ IsBlank(GetOr(data.message, ""))) => types = <<>>
            /\ (ChatFrame(data) /\ ~IsBlank(GetOr(data.message, ""))) =>
                  IF consumer.pc = "processing" THEN TurnOpened(types)
                  ELSE TurnClosed(types)

\* C30: every frame of type 'message' with non-blank text and attachment
\* entries that all carry a name is answered by a 'user' echo, then only
\* 'typing' frames, and when process_message has returned, whether with
\* success or not, by one final 'ai' frame carrying its response; with an
\* attachment entry that has no name the only frame sent is one 'error'
\* frame; a blank message is answered by no frame; invalid JSON and unknown
\* types by one 'error' frame
C30_TurnProtocol ==
    consumer.op = "receive" =>
        LET data == consumer.data
            types == FrameTypes(consumer.frames)
        IN  /\ (~data.json \/ UnknownFrame(data)) => types = <<"error">>
            /\ (ChatFrame(data) /\ IsBlank(GetOr(data.message, ""))) => types = <<>>
            /\ (ChatFrame(data) /\ ~IsBlank(GetOr(data.message, ""))
                   /\ ~NamedAttachments(data)) =>
                  consumer.pc = "idle" /\ types = <<"error">>
            /\ (ChatFrame(data) /\ ~IsBlank(GetOr(data.message, ""))
                   /\ NamedAttachments(data)) =>
                  IF consumer.pc = "processing" THEN TurnOpened(types)
                  ELSE /\ TurnClosed(types)
                       /\ \E result \in ProcessResults :
                             consumer.frames[Len(types)].message = result.response

\* a turn with attachments that ended with the reply of a failed
\* process_message
C30_Witness ==
    /\ consumer.op = "receive"
    /\ consumer.pc = "idle"
    /\ ChatFrame(consumer.data)
    /\ consumer.data.attached_files # <<>>
    /\ Len(consumer.frames) = 7
    /\ consumer.frames[7].type = "ai"
    /\ consumer.frames[7].message = MessageError("database error").response

====
